---- MODULE Spec2Model ----
(***************************************************************************)
(* Model of the three Move modules of clob_strategy_vault                  *)
(* (payment_with_auth, strategy_vault, order_book).                        *)
(*                                                                         *)
(* Global storage is modelled as partial functions keyed by account        *)
(* address (a resource exists at an address iff the address is in the      *)
(* DOMAIN).  Every entry function is an operator from a storage record to  *)
(* a storage record carrying an abort code: it runs up to its first abort  *)
(* and returns the storage as written so far together with the code.  A    *)
(* transaction that aborts has every write discarded by the Move VM, which *)
(* execute_transaction models.                                             *)
(***************************************************************************)
EXTENDS Integers, Sequences, FiniteSets, TLC

\* ---------------------------------------------------------------- bounds
\* Largest value of the unsigned integer type (u64, scaled down).
MAX_U64 == 4
\* Largest value of timestamp::now_seconds() and of an expiry.
MaxTime == 1
\* Nonces are drawn from 1..MaxNonce.
MaxNonce == 2
\* Amounts and share counts passed to entry functions: 0..MaxAmount.
MaxAmount == 2
\* Prices passed to place_order: 0, 1 and MaxPrice.
MaxPrice == 3
\* Quantities passed to place_order and fill_order: 0..MaxQuantity.
MaxQuantity == 2
\* Orders the book accepts in a run.
MaxOrders == 2
\* Requests the relayer receives in a run.
MaxRequests == 2
\* Coins every account holds initially.
InitCoin == 1
\* Bytes of an account address (32 in Aptos, scaled down).
AddressLength == 2

\* ------------------------------------------------------------- accounts
Users == {"u1", "u2"}
Facilitator == "f"
Addr == Users \cup {Facilitator}
\* The account that publishes the Vault and the OrderBook resources.
Admin == Facilitator

OK == "OK"

VARIABLES
    now,          \* timestamp::now_seconds()
    NonceStore,   \* address -> NonceStore resource
    CoinStore,    \* address -> coin balance
    Vault,        \* address -> Vault resource
    OrderBook,    \* address -> OrderBook resource
    payment_log,  \* (sender, nonce) -> number of PaymentExecutedEvents emitted
    tx,           \* the transaction being reported: op, args, abort code, events
    used_nonces,  \* the relayer's record of used (user, nonce) pairs
    requests      \* the HTTP requests the relayer has received

vars == <<now, NonceStore, CoinStore, Vault, OrderBook, payment_log, tx, used_nonces,
          requests>>

\* The storage a transaction runs on.
Storage ==
    [NonceStore |-> NonceStore, CoinStore |-> CoinStore, Vault |-> Vault,
     OrderBook |-> OrderBook, events |-> <<>>, err |-> OK]

\* assert!(cond, code) failing, or an arithmetic or table abort: execution
\* stops with the storage as written so far.
Abort(st, code) == [st EXCEPT !.err = code]

\* The VM commits the writes and events of a transaction that ran to the
\* end, and discards those of a transaction that aborted.
\* A ledger that keeps the writes of an aborted transaction.
execute_transaction_no_rollback(st, r) == r

execute_transaction(st, r) ==
    IF r.err = OK THEN r ELSE [st EXCEPT !.err = r.err]

emit(st, ev) == [st EXCEPT !.events = Append(@, ev)]

\* --------------------------------------------------- payment_with_auth
RECURSIVE u64_digits(_)
u64_digits(temp) ==
    IF temp = 0 THEN ""
    ELSE u64_digits(temp \div 10) \o SubSeq("0123456789", (temp % 10) + 1, (temp % 10) + 1)

u64_to_string(value) == IF value = 0 THEN "0" ELSE u64_digits(value)

RECURSIVE to_hex_string(_)
to_hex_string(bytes) ==
    IF bytes = <<>> THEN ""
    ELSE LET byte == Head(bytes)
             high == byte \div 16
             low == byte % 16
         IN SubSeq("0123456789abcdef", high + 1, high + 1)
              \o SubSeq("0123456789abcdef", low + 1, low + 1)
              \o to_hex_string(Tail(bytes))

\* bcs::to_bytes(&addr): the bytes of the address, most significant first.
address_bytes(addr) ==
    [i \in 1..AddressLength |->
        IF i < AddressLength THEN 0
        ELSE CASE addr = "u1" -> 161 [] addr = "u2" -> 162 [] OTHER -> 15]

address_to_string(addr) == "0x" \o to_hex_string(address_bytes(addr))

\* The `count` low bytes of n, least significant first.
RECURSIVE little_endian(_, _)
little_endian(n, count) ==
    IF count = 0 THEN <<>> ELSE <<n % 256>> \o little_endian(n \div 256, count - 1)

\* bcs::to_bytes(&n) of a u64: its 8 bytes, least significant first.
u64_bytes(n) == little_endian(n, 8)

\* The older format, kept in the source and called by nothing: the hex of
\* b"APTOS_PAYMENT_AUTH" and the BCS bytes of the five fields.
construct_authorization_message_old(sender, recipient, amount, nonce, expiry) ==
    LET bcs_message ==
            <<65, 80, 84, 79, 83, 95, 80, 65, 89, 77, 69, 78, 84, 95, 65, 85, 84, 72>>
              \o address_bytes(sender) \o address_bytes(recipient)
              \o u64_bytes(amount) \o u64_bytes(nonce) \o u64_bytes(expiry)
    IN "APTOS\nmessage: " \o to_hex_string(bcs_message) \o "\nnonce: " \o u64_to_string(nonce)

construct_authorization_message(sender, recipient, amount, nonce, expiry) ==
    LET inner_message ==
            address_to_string(sender) \o ":" \o address_to_string(recipient) \o ":"
              \o u64_to_string(amount) \o ":" \o u64_to_string(nonce) \o ":"
              \o u64_to_string(expiry)
    IN "APTOS\nmessage: " \o inner_message \o "\nnonce: " \o u64_to_string(nonce)

\* A signature value: made with the private key of `key` over `msg`;
\* `size_ok` is whether it has the 64 bytes of an Ed25519 signature.
\* A public key value is the account whose key it is.
signature_verify_strict(signature, public_key, message) ==
    signature.key = public_key /\ signature.msg = message

\* A public_key argument that is not the 32 bytes of an Ed25519 public key.
ShortKey == "short"

is_nonce_used(st, user, nonce) ==
    IF user \notin DOMAIN st.NonceStore THEN FALSE
    ELSE nonce \in st.NonceStore[user]

\* initialize_nonce_store publishing a fresh store whether or not one exists.
initialize_nonce_store_anew(st, account) ==
    [st EXCEPT !.NonceStore = (account :> {}) @@ @]

initialize_nonce_store(st, account) ==
    IF account \notin DOMAIN st.NonceStore
    THEN [st EXCEPT !.NonceStore = (account :> {}) @@ @]
    ELSE st

\* coin::transfer<CoinType>(from, to, amount)
coin_transfer(st, from, to, amount) ==
    IF st.CoinStore[from] < amount THEN Abort(st, "EINSUFFICIENT_BALANCE")
    ELSE LET withdrawn == [st EXCEPT !.CoinStore[from] = @ - amount]
         IN IF withdrawn.CoinStore[to] + amount > MAX_U64
            THEN Abort(withdrawn, "ARITHMETIC_ERROR")
            ELSE [withdrawn EXCEPT !.CoinStore[to] = @ + amount]

PaymentExecutedEvent(sender, recipient, amount, nonce, timestamp) ==
    [type |-> "PaymentExecutedEvent", sender |-> sender, recipient |-> recipient,
     amount |-> amount, nonce |-> nonce, timestamp |-> timestamp]

\* transfer_with_authorization without the replay check of the nonce.
transfer_replayable(st, current_time, facilitator, sender, recipient, amount, nonce, expiry, signature, public_key) ==
    IF ~(current_time <= expiry) THEN Abort(st, "E_AUTHORIZATION_EXPIRED")
    ELSE IF sender \notin DOMAIN st.NonceStore
    THEN Abort(st, "E_NONCE_STORE_NOT_INITIALIZED")
    ELSE IF public_key = ShortKey THEN Abort(st, "E_WRONG_PUBKEY_SIZE")
    ELSE IF ~signature.size_ok THEN Abort(st, "E_WRONG_SIGNATURE_SIZE")
    ELSE IF ~signature_verify_strict(signature, public_key,
                construct_authorization_message(sender, recipient, amount, nonce, expiry))
    THEN Abort(st, "E_INVALID_SIGNATURE")
    ELSE LET marked == [st EXCEPT !.NonceStore[sender] = @ \cup {nonce}]
             moved == coin_transfer(marked, facilitator, recipient, amount)
         IN IF moved.err # OK THEN moved
            ELSE emit(moved, PaymentExecutedEvent(sender, recipient, amount, nonce,
                                                  current_time))

\* transfer_with_authorization with the expiry compared by < instead of <=.
transfer_expiring_early(st, current_time, facilitator, sender, recipient, amount, nonce, expiry, signature, public_key) ==
    IF ~(current_time < expiry) THEN Abort(st, "E_AUTHORIZATION_EXPIRED")
    ELSE IF sender \notin DOMAIN st.NonceStore
    THEN Abort(st, "E_NONCE_STORE_NOT_INITIALIZED")
    ELSE IF nonce \in st.NonceStore[sender] THEN Abort(st, "E_NONCE_ALREADY_USED")
    ELSE IF public_key = ShortKey THEN Abort(st, "E_WRONG_PUBKEY_SIZE")
    ELSE IF ~signature.size_ok THEN Abort(st, "E_WRONG_SIGNATURE_SIZE")
    ELSE IF ~signature_verify_strict(signature, public_key,
                construct_authorization_message(sender, recipient, amount, nonce, expiry))
    THEN Abort(st, "E_INVALID_SIGNATURE")
    ELSE LET marked == [st EXCEPT !.NonceStore[sender] = @ \cup {nonce}]
             moved == coin_transfer(marked, facilitator, recipient, amount)
         IN IF moved.err # OK THEN moved
            ELSE emit(moved, PaymentExecutedEvent(sender, recipient, amount, nonce,
                                                  current_time))

\* transfer_with_authorization verifying the signature before it looks at the
\* nonce store.
transfer_verifying_first(st, current_time, facilitator, sender, recipient, amount, nonce, expiry, signature, public_key) ==
    IF ~(current_time <= expiry) THEN Abort(st, "E_AUTHORIZATION_EXPIRED")
    ELSE IF public_key = ShortKey THEN Abort(st, "E_WRONG_PUBKEY_SIZE")
    ELSE IF ~signature.size_ok THEN Abort(st, "E_WRONG_SIGNATURE_SIZE")
    ELSE IF ~signature_verify_strict(signature, public_key,
                construct_authorization_message(sender, recipient, amount, nonce, expiry))
    THEN Abort(st, "E_INVALID_SIGNATURE")
    ELSE IF sender \notin DOMAIN st.NonceStore
    THEN Abort(st, "E_NONCE_STORE_NOT_INITIALIZED")
    ELSE IF nonce \in st.NonceStore[sender] THEN Abort(st, "E_NONCE_ALREADY_USED")
    ELSE LET marked == [st EXCEPT !.NonceStore[sender] = @ \cup {nonce}]
             moved == coin_transfer(marked, facilitator, recipient, amount)
         IN IF moved.err # OK THEN moved
            ELSE emit(moved, PaymentExecutedEvent(sender, recipient, amount, nonce,
                                                  current_time))

transfer_with_authorization(st, current_time, facilitator, sender, recipient, amount, nonce, expiry, signature, public_key) ==
    IF ~(current_time <= expiry) THEN Abort(st, "E_AUTHORIZATION_EXPIRED")
    ELSE IF sender \notin DOMAIN st.NonceStore
    THEN Abort(st, "E_NONCE_STORE_NOT_INITIALIZED")
    ELSE IF nonce \in st.NonceStore[sender] THEN Abort(st, "E_NONCE_ALREADY_USED")
    ELSE IF public_key = ShortKey THEN Abort(st, "E_WRONG_PUBKEY_SIZE")
    ELSE IF ~signature.size_ok THEN Abort(st, "E_WRONG_SIGNATURE_SIZE")
    ELSE IF ~signature_verify_strict(signature, public_key,
                construct_authorization_message(sender, recipient, amount, nonce, expiry))
    THEN Abort(st, "E_INVALID_SIGNATURE")
    ELSE LET marked == [st EXCEPT !.NonceStore[sender] = @ \cup {nonce}]
             moved == coin_transfer(marked, facilitator, recipient, amount)
         IN IF moved.err # OK THEN moved
            ELSE emit(moved, PaymentExecutedEvent(sender, recipient, amount, nonce,
                                                  current_time))

\* ------------------------------------------------------- strategy_vault
\* table::contains / table::borrow with the default the code supplies.
balance_or_zero(table, key) == IF key \in DOMAIN table THEN table[key] ELSE 0

\* if (!table::contains(t, key)) { table::add(t, key, 0) }
add_if_absent(table, key) == IF key \in DOMAIN table THEN table ELSE (key :> 0) @@ table

DepositEvent(user, amount, shares_minted, timestamp) ==
    [type |-> "DepositEvent", user |-> user, amount |-> amount,
     shares_minted |-> shares_minted, timestamp |-> timestamp]

WithdrawEvent(user, amount, shares_burned, timestamp) ==
    [type |-> "WithdrawEvent", user |-> user, amount |-> amount,
     shares_burned |-> shares_burned, timestamp |-> timestamp]

VaultTradeEvent(reference_trader, trade_amount, timestamp) ==
    [type |-> "VaultTradeEvent", reference_trader |-> reference_trader,
     trade_amount |-> trade_amount, timestamp |-> timestamp]

initialize_vault(st, admin, reference_trader) ==
    IF admin \notin DOMAIN st.Vault
    THEN [st EXCEPT !.Vault = (admin :>
            [reference_trader |-> reference_trader, total_deposits |-> 0,
             total_shares |-> 0, user_shares |-> <<>>,
             user_available_balance |-> <<>>, user_locked_balance |-> <<>>,
             is_active |-> TRUE]) @@ @]
    ELSE st

\* deposit minting the user's shares without adding them to total_shares.
deposit_not_counting_shares(st, current_time, user_addr, vault_addr, amount) ==
    IF vault_addr \notin DOMAIN st.Vault THEN Abort(st, "E_VAULT_NOT_INITIALIZED")
    ELSE IF ~(amount > 0) THEN Abort(st, "E_INVALID_AMOUNT")
    ELSE LET vault == st.Vault[vault_addr] IN
    IF ~vault.is_active THEN Abort(st, "E_UNAUTHORIZED")
    ELSE IF vault.total_shares # 0 /\ amount * vault.total_shares > MAX_U64
    THEN Abort(st, "ARITHMETIC_ERROR")
    ELSE IF vault.total_shares # 0 /\ vault.total_deposits = 0
    THEN Abort(st, "ARITHMETIC_ERROR")
    ELSE LET shares_to_mint ==
                 IF vault.total_shares = 0 THEN amount
                 ELSE (amount * vault.total_shares) \div vault.total_deposits
    IN IF vault.total_deposits + amount > MAX_U64 THEN Abort(st, "ARITHMETIC_ERROR")
    ELSE LET s1 == [st EXCEPT !.Vault[vault_addr].total_deposits = @ + amount] IN
    IF vault.total_shares + shares_to_mint > MAX_U64 THEN Abort(s1, "ARITHMETIC_ERROR")
    ELSE LET s2 == [s1 EXCEPT !.Vault[vault_addr].total_shares = @,
                              !.Vault[vault_addr].user_shares =
                                  add_if_absent(@, user_addr)] IN
    IF s2.Vault[vault_addr].user_shares[user_addr] + shares_to_mint > MAX_U64
    THEN Abort(s2, "ARITHMETIC_ERROR")
    ELSE LET s3 == [s2 EXCEPT !.Vault[vault_addr].user_shares[user_addr] =
                                  @ + shares_to_mint,
                              !.Vault[vault_addr].user_available_balance =
                                  add_if_absent(@, user_addr),
                              !.Vault[vault_addr].user_locked_balance =
                                  add_if_absent(@, user_addr)] IN
    IF s3.Vault[vault_addr].user_available_balance[user_addr] + amount > MAX_U64
    THEN Abort(s3, "ARITHMETIC_ERROR")
    ELSE LET s4 == [s3 EXCEPT !.Vault[vault_addr].user_available_balance[user_addr] =
                                  @ + amount]
             moved == coin_transfer(s4, user_addr, vault_addr, amount)
    IN IF moved.err # OK THEN moved
       ELSE emit(moved, DepositEvent(user_addr, amount, shares_to_mint, current_time))

\* deposit computing the shares from total_deposits as already raised by the
\* amount.
deposit_minting_late(st, current_time, user_addr, vault_addr, amount) ==
    IF vault_addr \notin DOMAIN st.Vault THEN Abort(st, "E_VAULT_NOT_INITIALIZED")
    ELSE IF ~(amount > 0) THEN Abort(st, "E_INVALID_AMOUNT")
    ELSE LET vault == st.Vault[vault_addr] IN
    IF ~vault.is_active THEN Abort(st, "E_UNAUTHORIZED")
    ELSE IF vault.total_shares # 0 /\ amount * vault.total_shares > MAX_U64
    THEN Abort(st, "ARITHMETIC_ERROR")
    ELSE IF vault.total_deposits + amount > MAX_U64 THEN Abort(st, "ARITHMETIC_ERROR")
    ELSE LET shares_to_mint ==
                 IF vault.total_shares = 0 THEN amount
                 ELSE (amount * vault.total_shares) \div (vault.total_deposits + amount)
             s1 == [st EXCEPT !.Vault[vault_addr].total_deposits = @ + amount] IN
    IF vault.total_shares + shares_to_mint > MAX_U64 THEN Abort(s1, "ARITHMETIC_ERROR")
    ELSE LET s2 == [s1 EXCEPT !.Vault[vault_addr].total_shares = @ + shares_to_mint,
                              !.Vault[vault_addr].user_shares =
                                  add_if_absent(@, user_addr)] IN
    IF s2.Vault[vault_addr].user_shares[user_addr] + shares_to_mint > MAX_U64
    THEN Abort(s2, "ARITHMETIC_ERROR")
    ELSE LET s3 == [s2 EXCEPT !.Vault[vault_addr].user_shares[user_addr] =
                                  @ + shares_to_mint,
                              !.Vault[vault_addr].user_available_balance =
                                  add_if_absent(@, user_addr),
                              !.Vault[vault_addr].user_locked_balance =
                                  add_if_absent(@, user_addr)] IN
    IF s3.Vault[vault_addr].user_available_balance[user_addr] + amount > MAX_U64
    THEN Abort(s3, "ARITHMETIC_ERROR")
    ELSE LET s4 == [s3 EXCEPT !.Vault[vault_addr].user_available_balance[user_addr] =
                                  @ + amount]
             moved == coin_transfer(s4, user_addr, vault_addr, amount)
    IN IF moved.err # OK THEN moved
       ELSE emit(moved, DepositEvent(user_addr, amount, shares_to_mint, current_time))

deposit(st, current_time, user_addr, vault_addr, amount) ==
    IF vault_addr \notin DOMAIN st.Vault THEN Abort(st, "E_VAULT_NOT_INITIALIZED")
    ELSE IF ~(amount > 0) THEN Abort(st, "E_INVALID_AMOUNT")
    ELSE LET vault == st.Vault[vault_addr] IN
    IF ~vault.is_active THEN Abort(st, "E_UNAUTHORIZED")
    ELSE IF vault.total_shares # 0 /\ amount * vault.total_shares > MAX_U64
    THEN Abort(st, "ARITHMETIC_ERROR")
    ELSE IF vault.total_shares # 0 /\ vault.total_deposits = 0
    THEN Abort(st, "ARITHMETIC_ERROR")
    ELSE LET shares_to_mint ==
                 IF vault.total_shares = 0 THEN amount
                 ELSE (amount * vault.total_shares) \div vault.total_deposits
    IN IF vault.total_deposits + amount > MAX_U64 THEN Abort(st, "ARITHMETIC_ERROR")
    ELSE LET s1 == [st EXCEPT !.Vault[vault_addr].total_deposits = @ + amount] IN
    IF vault.total_shares + shares_to_mint > MAX_U64 THEN Abort(s1, "ARITHMETIC_ERROR")
    ELSE LET s2 == [s1 EXCEPT !.Vault[vault_addr].total_shares = @ + shares_to_mint,
                              !.Vault[vault_addr].user_shares =
                                  add_if_absent(@, user_addr)] IN
    IF s2.Vault[vault_addr].user_shares[user_addr] + shares_to_mint > MAX_U64
    THEN Abort(s2, "ARITHMETIC_ERROR")
    ELSE LET s3 == [s2 EXCEPT !.Vault[vault_addr].user_shares[user_addr] =
                                  @ + shares_to_mint,
                              !.Vault[vault_addr].user_available_balance =
                                  add_if_absent(@, user_addr),
                              !.Vault[vault_addr].user_locked_balance =
                                  add_if_absent(@, user_addr)] IN
    IF s3.Vault[vault_addr].user_available_balance[user_addr] + amount > MAX_U64
    THEN Abort(s3, "ARITHMETIC_ERROR")
    ELSE LET s4 == [s3 EXCEPT !.Vault[vault_addr].user_available_balance[user_addr] =
                                  @ + amount]
             moved == coin_transfer(s4, user_addr, vault_addr, amount)
    IN IF moved.err # OK THEN moved
       ELSE emit(moved, DepositEvent(user_addr, amount, shares_to_mint, current_time))

\* credit_deposit computing the shares from total_deposits as already raised
\* by the amount.
credit_deposit_minting_late(st, current_time, facilitator, vault_addr, user_addr, amount) ==
    IF vault_addr \notin DOMAIN st.Vault THEN Abort(st, "E_VAULT_NOT_INITIALIZED")
    ELSE IF ~(amount > 0) THEN Abort(st, "E_INVALID_AMOUNT")
    ELSE LET vault == st.Vault[vault_addr] IN
    IF ~vault.is_active THEN Abort(st, "E_UNAUTHORIZED")
    ELSE IF vault.total_shares # 0 /\ amount * vault.total_shares > MAX_U64
    THEN Abort(st, "ARITHMETIC_ERROR")
    ELSE IF vault.total_shares # 0 /\ vault.total_deposits = 0
    THEN Abort(st, "ARITHMETIC_ERROR")
    ELSE LET shares_to_mint ==
                 IF vault.total_shares = 0 THEN amount
                 ELSE (amount * vault.total_shares) \div (vault.total_deposits + amount)
    IN IF vault.total_deposits + amount > MAX_U64 THEN Abort(st, "ARITHMETIC_ERROR")
    ELSE LET s1 == [st EXCEPT !.Vault[vault_addr].total_deposits = @ + amount] IN
    IF vault.total_shares + shares_to_mint > MAX_U64 THEN Abort(s1, "ARITHMETIC_ERROR")
    ELSE LET s2 == [s1 EXCEPT !.Vault[vault_addr].total_shares = @ + shares_to_mint,
                              !.Vault[vault_addr].user_shares =
                                  add_if_absent(@, user_addr)] IN
    IF s2.Vault[vault_addr].user_shares[user_addr] + shares_to_mint > MAX_U64
    THEN Abort(s2, "ARITHMETIC_ERROR")
    ELSE LET s3 == [s2 EXCEPT !.Vault[vault_addr].user_shares[user_addr] =
                                  @ + shares_to_mint,
                              !.Vault[vault_addr].user_available_balance =
                                  add_if_absent(@, user_addr),
                              !.Vault[vault_addr].user_locked_balance =
                                  add_if_absent(@, user_addr)] IN
    IF s3.Vault[vault_addr].user_available_balance[user_addr] + amount > MAX_U64
    THEN Abort(s3, "ARITHMETIC_ERROR")
    ELSE LET s4 == [s3 EXCEPT !.Vault[vault_addr].user_available_balance[user_addr] =
                                  @ + amount]
    IN emit(s4, DepositEvent(user_addr, amount, shares_to_mint, current_time))

credit_deposit(st, current_time, facilitator, vault_addr, user_addr, amount) ==
    IF vault_addr \notin DOMAIN st.Vault THEN Abort(st, "E_VAULT_NOT_INITIALIZED")
    ELSE IF ~(amount > 0) THEN Abort(st, "E_INVALID_AMOUNT")
    ELSE LET vault == st.Vault[vault_addr] IN
    IF ~vault.is_active THEN Abort(st, "E_UNAUTHORIZED")
    ELSE IF vault.total_shares # 0 /\ amount * vault.total_shares > MAX_U64
    THEN Abort(st, "ARITHMETIC_ERROR")
    ELSE IF vault.total_shares # 0 /\ vault.total_deposits = 0
    THEN Abort(st, "ARITHMETIC_ERROR")
    ELSE LET shares_to_mint ==
                 IF vault.total_shares = 0 THEN amount
                 ELSE (amount * vault.total_shares) \div vault.total_deposits
    IN IF vault.total_deposits + amount > MAX_U64 THEN Abort(st, "ARITHMETIC_ERROR")
    ELSE LET s1 == [st EXCEPT !.Vault[vault_addr].total_deposits = @ + amount] IN
    IF vault.total_shares + shares_to_mint > MAX_U64 THEN Abort(s1, "ARITHMETIC_ERROR")
    ELSE LET s2 == [s1 EXCEPT !.Vault[vault_addr].total_shares = @ + shares_to_mint,
                              !.Vault[vault_addr].user_shares =
                                  add_if_absent(@, user_addr)] IN
    IF s2.Vault[vault_addr].user_shares[user_addr] + shares_to_mint > MAX_U64
    THEN Abort(s2, "ARITHMETIC_ERROR")
    ELSE LET s3 == [s2 EXCEPT !.Vault[vault_addr].user_shares[user_addr] =
                                  @ + shares_to_mint,
                              !.Vault[vault_addr].user_available_balance =
                                  add_if_absent(@, user_addr),
                              !.Vault[vault_addr].user_locked_balance =
                                  add_if_absent(@, user_addr)] IN
    IF s3.Vault[vault_addr].user_available_balance[user_addr] + amount > MAX_U64
    THEN Abort(s3, "ARITHMETIC_ERROR")
    ELSE LET s4 == [s3 EXCEPT !.Vault[vault_addr].user_available_balance[user_addr] =
                                  @ + amount]
    IN emit(s4, DepositEvent(user_addr, amount, shares_to_mint, current_time))

\* withdraw computing shares * total_deposits in a wider integer, so that the
\* product cannot overflow.
withdraw_with_wide_product(st, current_time, user_addr, vault_addr, shares) ==
    IF vault_addr \notin DOMAIN st.Vault THEN Abort(st, "E_VAULT_NOT_INITIALIZED")
    ELSE IF ~(shares > 0) THEN Abort(st, "E_INVALID_AMOUNT")
    ELSE LET vault == st.Vault[vault_addr] IN
    IF user_addr \notin DOMAIN vault.user_shares THEN Abort(st, "E_INSUFFICIENT_SHARES")
    ELSE IF ~(vault.user_shares[user_addr] >= shares)
    THEN Abort(st, "E_INSUFFICIENT_SHARES")
    ELSE IF vault.total_shares = 0 THEN Abort(st, "ARITHMETIC_ERROR")
    ELSE LET amount == (shares * vault.total_deposits) \div vault.total_shares IN
    IF vault.total_deposits < amount THEN Abort(st, "ARITHMETIC_ERROR")
    ELSE LET s1 == [st EXCEPT !.Vault[vault_addr].total_deposits = @ - amount] IN
    IF vault.total_shares < shares THEN Abort(s1, "ARITHMETIC_ERROR")
    ELSE emit([s1 EXCEPT !.Vault[vault_addr].total_shares = @ - shares,
                         !.Vault[vault_addr].user_shares[user_addr] = @ - shares],
              WithdrawEvent(user_addr, amount, shares, current_time))

\* withdraw leaving total_deposits as it was.
withdraw_keeping_deposits(st, current_time, user_addr, vault_addr, shares) ==
    IF vault_addr \notin DOMAIN st.Vault THEN Abort(st, "E_VAULT_NOT_INITIALIZED")
    ELSE IF ~(shares > 0) THEN Abort(st, "E_INVALID_AMOUNT")
    ELSE LET vault == st.Vault[vault_addr] IN
    IF user_addr \notin DOMAIN vault.user_shares THEN Abort(st, "E_INSUFFICIENT_SHARES")
    ELSE IF ~(vault.user_shares[user_addr] >= shares)
    THEN Abort(st, "E_INSUFFICIENT_SHARES")
    ELSE IF shares * vault.total_deposits > MAX_U64 \/ vault.total_shares = 0
    THEN Abort(st, "ARITHMETIC_ERROR")
    ELSE LET amount == (shares * vault.total_deposits) \div vault.total_shares IN
    IF vault.total_deposits < amount THEN Abort(st, "ARITHMETIC_ERROR")
    ELSE LET s1 == st IN
    IF vault.total_shares < shares THEN Abort(s1, "ARITHMETIC_ERROR")
    ELSE emit([s1 EXCEPT !.Vault[vault_addr].total_shares = @ - shares,
                         !.Vault[vault_addr].user_shares[user_addr] = @ - shares],
              WithdrawEvent(user_addr, amount, shares, current_time))

\* withdraw without the check that shares > 0.
withdraw_allowing_zero(st, current_time, user_addr, vault_addr, shares) ==
    IF vault_addr \notin DOMAIN st.Vault THEN Abort(st, "E_VAULT_NOT_INITIALIZED")
    ELSE LET vault == st.Vault[vault_addr] IN
    IF user_addr \notin DOMAIN vault.user_shares THEN Abort(st, "E_INSUFFICIENT_SHARES")
    ELSE IF ~(vault.user_shares[user_addr] >= shares)
    THEN Abort(st, "E_INSUFFICIENT_SHARES")
    ELSE IF shares * vault.total_deposits > MAX_U64 \/ vault.total_shares = 0
    THEN Abort(st, "ARITHMETIC_ERROR")
    ELSE LET amount == (shares * vault.total_deposits) \div vault.total_shares IN
    IF vault.total_deposits < amount THEN Abort(st, "ARITHMETIC_ERROR")
    ELSE LET s1 == [st EXCEPT !.Vault[vault_addr].total_deposits = @ - amount] IN
    IF vault.total_shares < shares THEN Abort(s1, "ARITHMETIC_ERROR")
    ELSE emit([s1 EXCEPT !.Vault[vault_addr].total_shares = @ - shares,
                         !.Vault[vault_addr].user_shares[user_addr] = @ - shares],
              WithdrawEvent(user_addr, amount, shares, current_time))

\* withdraw releasing what the user has locked.
withdraw_from_locked(st, current_time, user_addr, vault_addr, shares) ==
    IF vault_addr \notin DOMAIN st.Vault THEN Abort(st, "E_VAULT_NOT_INITIALIZED")
    ELSE IF ~(shares > 0) THEN Abort(st, "E_INVALID_AMOUNT")
    ELSE LET vault == st.Vault[vault_addr] IN
    IF user_addr \notin DOMAIN vault.user_shares THEN Abort(st, "E_INSUFFICIENT_SHARES")
    ELSE IF ~(vault.user_shares[user_addr] >= shares)
    THEN Abort(st, "E_INSUFFICIENT_SHARES")
    ELSE IF shares * vault.total_deposits > MAX_U64 \/ vault.total_shares = 0
    THEN Abort(st, "ARITHMETIC_ERROR")
    ELSE LET amount == (shares * vault.total_deposits) \div vault.total_shares IN
    IF vault.total_deposits < amount THEN Abort(st, "ARITHMETIC_ERROR")
    ELSE LET s1 == [st EXCEPT !.Vault[vault_addr].total_deposits = @ - amount] IN
    IF vault.total_shares < shares THEN Abort(s1, "ARITHMETIC_ERROR")
    ELSE emit([s1 EXCEPT !.Vault[vault_addr].total_shares = @ - shares,
                         !.Vault[vault_addr].user_shares[user_addr] = @ - shares,
                         !.Vault[vault_addr].user_locked_balance =
                             [w \in DOMAIN @ |-> IF w = user_addr THEN 0 ELSE @[w]]],
              WithdrawEvent(user_addr, amount, shares, current_time))

withdraw(st, current_time, user_addr, vault_addr, shares) ==
    IF vault_addr \notin DOMAIN st.Vault THEN Abort(st, "E_VAULT_NOT_INITIALIZED")
    ELSE IF ~(shares > 0) THEN Abort(st, "E_INVALID_AMOUNT")
    ELSE LET vault == st.Vault[vault_addr] IN
    IF user_addr \notin DOMAIN vault.user_shares THEN Abort(st, "E_INSUFFICIENT_SHARES")
    ELSE IF ~(vault.user_shares[user_addr] >= shares)
    THEN Abort(st, "E_INSUFFICIENT_SHARES")
    ELSE IF shares * vault.total_deposits > MAX_U64 \/ vault.total_shares = 0
    THEN Abort(st, "ARITHMETIC_ERROR")
    ELSE LET amount == (shares * vault.total_deposits) \div vault.total_shares IN
    IF vault.total_deposits < amount THEN Abort(st, "ARITHMETIC_ERROR")
    ELSE LET s1 == [st EXCEPT !.Vault[vault_addr].total_deposits = @ - amount] IN
    IF vault.total_shares < shares THEN Abort(s1, "ARITHMETIC_ERROR")
    ELSE emit([s1 EXCEPT !.Vault[vault_addr].total_shares = @ - shares,
                         !.Vault[vault_addr].user_shares[user_addr] = @ - shares],
              WithdrawEvent(user_addr, amount, shares, current_time))

record_vault_trade(st, current_time, facilitator, vault_addr, trade_amount) ==
    IF vault_addr \notin DOMAIN st.Vault THEN Abort(st, "E_VAULT_NOT_INITIALIZED")
    ELSE emit(st, VaultTradeEvent(st.Vault[vault_addr].reference_trader,
                                  trade_amount, current_time))

\* lock_balance asking for more than the amount to be available.
lock_balance_strict(st, vault_addr, user, amount) ==
    IF vault_addr \notin DOMAIN st.Vault THEN Abort(st, "E_VAULT_NOT_INITIALIZED")
    ELSE LET vault == st.Vault[vault_addr]
             available == add_if_absent(vault.user_available_balance, user)
             locked == add_if_absent(vault.user_locked_balance, user)
             added == [st EXCEPT !.Vault[vault_addr] =
                         [vault EXCEPT !.user_available_balance = available,
                                       !.user_locked_balance = locked]]
    IN IF ~(available[user] > amount)
       THEN Abort(added, "E_INSUFFICIENT_AVAILABLE_BALANCE")
       ELSE IF locked[user] + amount > MAX_U64 THEN Abort(added, "ARITHMETIC_ERROR")
       ELSE [st EXCEPT !.Vault[vault_addr] =
                [vault EXCEPT
                    !.user_available_balance = [available EXCEPT ![user] = @ - amount],
                    !.user_locked_balance = [locked EXCEPT ![user] = @ + amount]]]

lock_balance(st, vault_addr, user, amount) ==
    IF vault_addr \notin DOMAIN st.Vault THEN Abort(st, "E_VAULT_NOT_INITIALIZED")
    ELSE LET vault == st.Vault[vault_addr]
             available == add_if_absent(vault.user_available_balance, user)
             locked == add_if_absent(vault.user_locked_balance, user)
             added == [st EXCEPT !.Vault[vault_addr] =
                         [vault EXCEPT !.user_available_balance = available,
                                       !.user_locked_balance = locked]]
    IN IF ~(available[user] >= amount)
       THEN Abort(added, "E_INSUFFICIENT_AVAILABLE_BALANCE")
       ELSE IF locked[user] + amount > MAX_U64 THEN Abort(added, "ARITHMETIC_ERROR")
       ELSE [st EXCEPT !.Vault[vault_addr] =
                [vault EXCEPT
                    !.user_available_balance = [available EXCEPT ![user] = @ - amount],
                    !.user_locked_balance = [locked EXCEPT ![user] = @ + amount]]]

\* unlock_balance taking the amount out of the locked balance without
\* returning it to the available balance.
unlock_balance_dropping(st, vault_addr, user, amount) ==
    IF vault_addr \notin DOMAIN st.Vault THEN Abort(st, "E_VAULT_NOT_INITIALIZED")
    ELSE LET vault == st.Vault[vault_addr] IN
    IF \/ user \notin DOMAIN vault.user_available_balance
       \/ user \notin DOMAIN vault.user_locked_balance
    THEN Abort(st, "TABLE_ENOT_FOUND")
    ELSE IF ~(vault.user_locked_balance[user] >= amount)
    THEN Abort(st, "E_INSUFFICIENT_LOCKED_BALANCE")
    ELSE IF vault.user_available_balance[user] + amount > MAX_U64
    THEN Abort([st EXCEPT !.Vault[vault_addr].user_locked_balance[user] = @ - amount],
               "ARITHMETIC_ERROR")
    ELSE [st EXCEPT !.Vault[vault_addr] =
            [vault EXCEPT
                !.user_locked_balance[user] = @ - amount,
                !.user_available_balance[user] = @]]

unlock_balance(st, vault_addr, user, amount) ==
    IF vault_addr \notin DOMAIN st.Vault THEN Abort(st, "E_VAULT_NOT_INITIALIZED")
    ELSE LET vault == st.Vault[vault_addr] IN
    IF \/ user \notin DOMAIN vault.user_available_balance
       \/ user \notin DOMAIN vault.user_locked_balance
    THEN Abort(st, "TABLE_ENOT_FOUND")
    ELSE IF ~(vault.user_locked_balance[user] >= amount)
    THEN Abort(st, "E_INSUFFICIENT_LOCKED_BALANCE")
    ELSE IF vault.user_available_balance[user] + amount > MAX_U64
    THEN Abort([st EXCEPT !.Vault[vault_addr].user_locked_balance[user] = @ - amount],
               "ARITHMETIC_ERROR")
    ELSE [st EXCEPT !.Vault[vault_addr] =
            [vault EXCEPT
                !.user_locked_balance[user] = @ - amount,
                !.user_available_balance[user] = @ + amount]]

\* settle_order crediting the receiver's locked balance.
settle_order_to_locked(st, vault_addr, from, to, amount) ==
    IF vault_addr \notin DOMAIN st.Vault THEN Abort(st, "E_VAULT_NOT_INITIALIZED")
    ELSE LET vault == st.Vault[vault_addr]
             available == add_if_absent(vault.user_available_balance, to)
             locked == add_if_absent(vault.user_locked_balance, to)
             added == [st EXCEPT !.Vault[vault_addr] =
                         [vault EXCEPT !.user_available_balance = available,
                                       !.user_locked_balance = locked]]
    IN IF from \notin DOMAIN locked THEN Abort(added, "TABLE_ENOT_FOUND")
       ELSE IF ~(locked[from] >= amount)
       THEN Abort(added, "E_INSUFFICIENT_LOCKED_BALANCE")
       ELSE IF available[to] + amount > MAX_U64
       THEN Abort([added EXCEPT !.Vault[vault_addr].user_locked_balance[from] =
                        @ - amount], "ARITHMETIC_ERROR")
       ELSE [st EXCEPT !.Vault[vault_addr] =
                [vault EXCEPT
                    !.user_locked_balance = [locked EXCEPT ![from] = @ - amount,
                                                           ![to] = @ + amount],
                    !.user_available_balance = available]]

\* settle_order adding to the payee's available balance modulo 2^64.
settle_order_wrapping(st, vault_addr, from, to, amount) ==
    IF vault_addr \notin DOMAIN st.Vault THEN Abort(st, "E_VAULT_NOT_INITIALIZED")
    ELSE LET vault == st.Vault[vault_addr]
             available == add_if_absent(vault.user_available_balance, to)
             locked == add_if_absent(vault.user_locked_balance, to)
             added == [st EXCEPT !.Vault[vault_addr] =
                         [vault EXCEPT !.user_available_balance = available,
                                       !.user_locked_balance = locked]]
    IN IF from \notin DOMAIN locked THEN Abort(added, "TABLE_ENOT_FOUND")
       ELSE IF ~(locked[from] >= amount)
       THEN Abort(added, "E_INSUFFICIENT_LOCKED_BALANCE")
       ELSE [st EXCEPT !.Vault[vault_addr] =
                [vault EXCEPT
                    !.user_locked_balance = [locked EXCEPT ![from] = @ - amount],
                    !.user_available_balance =
                        [available EXCEPT ![to] = (@ + amount) % (MAX_U64 + 1)]]]

settle_order(st, vault_addr, from, to, amount) ==
    IF vault_addr \notin DOMAIN st.Vault THEN Abort(st, "E_VAULT_NOT_INITIALIZED")
    ELSE LET vault == st.Vault[vault_addr]
             available == add_if_absent(vault.user_available_balance, to)
             locked == add_if_absent(vault.user_locked_balance, to)
             added == [st EXCEPT !.Vault[vault_addr] =
                         [vault EXCEPT !.user_available_balance = available,
                                       !.user_locked_balance = locked]]
    IN IF from \notin DOMAIN locked THEN Abort(added, "TABLE_ENOT_FOUND")
       ELSE IF ~(locked[from] >= amount)
       THEN Abort(added, "E_INSUFFICIENT_LOCKED_BALANCE")
       ELSE IF available[to] + amount > MAX_U64
       THEN Abort([added EXCEPT !.Vault[vault_addr].user_locked_balance[from] =
                        @ - amount], "ARITHMETIC_ERROR")
       ELSE [st EXCEPT !.Vault[vault_addr] =
                [vault EXCEPT
                    !.user_locked_balance = [locked EXCEPT ![from] = @ - amount],
                    !.user_available_balance = [available EXCEPT ![to] = @ + amount]]]

get_user_shares(st, vault_addr, user) ==
    balance_or_zero(st.Vault[vault_addr].user_shares, user)

calculate_share_value(st, vault_addr, shares) ==
    LET vault == st.Vault[vault_addr]
    IN IF vault.total_shares = 0 THEN 0
       ELSE (shares * vault.total_deposits) \div vault.total_shares

get_user_available_balance(st, vault_addr, user) ==
    balance_or_zero(st.Vault[vault_addr].user_available_balance, user)

get_user_locked_balance(st, vault_addr, user) ==
    balance_or_zero(st.Vault[vault_addr].user_locked_balance, user)

get_user_total_balance(st, vault_addr, user) ==
    get_user_available_balance(st, vault_addr, user)
      + get_user_locked_balance(st, vault_addr, user)

\* ----------------------------------------------------------- order_book
ORDER_SIDE_BID == 0
ORDER_SIDE_ASK == 1
ORDER_STATUS_OPEN == 0
ORDER_STATUS_FILLED == 1
ORDER_STATUS_CANCELLED == 2
ORDER_STATUS_PARTIALLY_FILLED == 3

Order(order_id, owner, price, quantity, filled_quantity, side, status, timestamp) ==
    [order_id |-> order_id, owner |-> owner, price |-> price, quantity |-> quantity,
     filled_quantity |-> filled_quantity, side |-> side, status |-> status,
     timestamp |-> timestamp]

OrderPlacedEvent(order_id, owner, price, quantity, side, timestamp) ==
    [type |-> "OrderPlacedEvent", order_id |-> order_id, owner |-> owner,
     price |-> price, quantity |-> quantity, side |-> side, timestamp |-> timestamp]

OrderFilledEvent(order_id, owner, filled_quantity, remaining_quantity, timestamp) ==
    [type |-> "OrderFilledEvent", order_id |-> order_id, owner |-> owner,
     filled_quantity |-> filled_quantity, remaining_quantity |-> remaining_quantity,
     timestamp |-> timestamp]

OrderCancelledEvent(order_id, owner, timestamp) ==
    [type |-> "OrderCancelledEvent", order_id |-> order_id, owner |-> owner,
     timestamp |-> timestamp]

\* initialize_order_book publishing an empty book also where one exists.
initialize_order_book_anew(st, admin, vault_address) ==
    [st EXCEPT !.OrderBook = (admin :>
        [next_order_id |-> 1, orders |-> <<>>, user_orders |-> <<>>,
         vault_address |-> vault_address]) @@ @]

initialize_order_book(st, admin, vault_address) ==
    IF admin \notin DOMAIN st.OrderBook
    THEN [st EXCEPT !.OrderBook = (admin :>
            [next_order_id |-> 1, orders |-> <<>>, user_orders |-> <<>>,
             vault_address |-> vault_address]) @@ @]
    ELSE st

\* place_order going on to record the order when lock_balance failed.
place_order_ignoring_lock(st, current_time, owner, order_book_addr, price, quantity, side) ==
    IF order_book_addr \notin DOMAIN st.OrderBook
    THEN Abort(st, "E_ORDER_BOOK_NOT_INITIALIZED")
    ELSE IF ~(price > 0) THEN Abort(st, "E_INVALID_PRICE")
    ELSE IF ~(quantity > 0) THEN Abort(st, "E_INVALID_QUANTITY")
    ELSE LET order_book == st.OrderBook[order_book_addr] IN
    IF side = ORDER_SIDE_BID /\ price * quantity > MAX_U64
    THEN Abort(st, "ARITHMETIC_ERROR")
    ELSE LET lock_amount == IF side = ORDER_SIDE_BID THEN price * quantity ELSE quantity
             locked == lock_balance(st, order_book.vault_address, owner, lock_amount)
             order_id == order_book.next_order_id
             kept == IF locked.err # OK THEN st ELSE locked
    IN IF order_id + 1 > MAX_U64 THEN Abort(kept, "ARITHMETIC_ERROR")
       ELSE emit([kept EXCEPT !.OrderBook[order_book_addr] =
                    [order_book EXCEPT
                        !.next_order_id = order_id + 1,
                        !.orders = (order_id :>
                            Order(order_id, owner, price, quantity, 0, side,
                                  ORDER_STATUS_OPEN, current_time)) @@ @,
                        !.user_orders =
                            (owner :> Append(IF owner \in DOMAIN @ THEN @[owner]
                                             ELSE <<>>, order_id)) @@ @]],
                 OrderPlacedEvent(order_id, owner, price, quantity, side, current_time))

\* place_order leaving next_order_id as it found it.
place_order_reusing_id(st, current_time, owner, order_book_addr, price, quantity, side) ==
    IF order_book_addr \notin DOMAIN st.OrderBook
    THEN Abort(st, "E_ORDER_BOOK_NOT_INITIALIZED")
    ELSE IF ~(price > 0) THEN Abort(st, "E_INVALID_PRICE")
    ELSE IF ~(quantity > 0) THEN Abort(st, "E_INVALID_QUANTITY")
    ELSE LET order_book == st.OrderBook[order_book_addr] IN
    IF side = ORDER_SIDE_BID /\ price * quantity > MAX_U64
    THEN Abort(st, "ARITHMETIC_ERROR")
    ELSE LET lock_amount == IF side = ORDER_SIDE_BID THEN price * quantity ELSE quantity
             locked == lock_balance(st, order_book.vault_address, owner, lock_amount)
             order_id == order_book.next_order_id
    IN IF locked.err # OK THEN locked
       ELSE IF order_id + 1 > MAX_U64 THEN Abort(locked, "ARITHMETIC_ERROR")
       ELSE emit([locked EXCEPT !.OrderBook[order_book_addr] =
                    [order_book EXCEPT
                        !.next_order_id = order_id,
                        !.orders = (order_id :>
                            Order(order_id, owner, price, quantity, 0, side,
                                  ORDER_STATUS_OPEN, current_time)) @@ @,
                        !.user_orders =
                            (owner :> Append(IF owner \in DOMAIN @ THEN @[owner]
                                             ELSE <<>>, order_id)) @@ @]],
                 OrderPlacedEvent(order_id, owner, price, quantity, side, current_time))

place_order(st, current_time, owner, order_book_addr, price, quantity, side) ==
    IF order_book_addr \notin DOMAIN st.OrderBook
    THEN Abort(st, "E_ORDER_BOOK_NOT_INITIALIZED")
    ELSE IF ~(price > 0) THEN Abort(st, "E_INVALID_PRICE")
    ELSE IF ~(quantity > 0) THEN Abort(st, "E_INVALID_QUANTITY")
    ELSE LET order_book == st.OrderBook[order_book_addr] IN
    IF side = ORDER_SIDE_BID /\ price * quantity > MAX_U64
    THEN Abort(st, "ARITHMETIC_ERROR")
    ELSE LET lock_amount == IF side = ORDER_SIDE_BID THEN price * quantity ELSE quantity
             locked == lock_balance(st, order_book.vault_address, owner, lock_amount)
             order_id == order_book.next_order_id
    IN IF locked.err # OK THEN locked
       ELSE IF order_id + 1 > MAX_U64 THEN Abort(locked, "ARITHMETIC_ERROR")
       ELSE emit([locked EXCEPT !.OrderBook[order_book_addr] =
                    [order_book EXCEPT
                        !.next_order_id = order_id + 1,
                        !.orders = (order_id :>
                            Order(order_id, owner, price, quantity, 0, side,
                                  ORDER_STATUS_OPEN, current_time)) @@ @,
                        !.user_orders =
                            (owner :> Append(IF owner \in DOMAIN @ THEN @[owner]
                                             ELSE <<>>, order_id)) @@ @]],
                 OrderPlacedEvent(order_id, owner, price, quantity, side, current_time))

\* place_order_for_user locking the quantity on either side.
place_order_for_user_locking_quantity(st, current_time, facilitator, order_book_addr, user_addr, price, quantity, side) ==
    IF order_book_addr \notin DOMAIN st.OrderBook
    THEN Abort(st, "E_ORDER_BOOK_NOT_INITIALIZED")
    ELSE IF ~(price > 0) THEN Abort(st, "E_INVALID_PRICE")
    ELSE IF ~(quantity > 0) THEN Abort(st, "E_INVALID_QUANTITY")
    ELSE LET order_book == st.OrderBook[order_book_addr]
             locked == lock_balance(st, order_book.vault_address, user_addr, quantity)
             order_id == order_book.next_order_id
    IN IF locked.err # OK THEN locked
       ELSE IF order_id + 1 > MAX_U64 THEN Abort(locked, "ARITHMETIC_ERROR")
       ELSE emit([locked EXCEPT !.OrderBook[order_book_addr] =
                    [order_book EXCEPT
                        !.next_order_id = order_id + 1,
                        !.orders = (order_id :>
                            Order(order_id, user_addr, price, quantity, 0, side,
                                  ORDER_STATUS_OPEN, current_time)) @@ @,
                        !.user_orders =
                            (user_addr :> Append(IF user_addr \in DOMAIN @ THEN @[user_addr]
                                                 ELSE <<>>, order_id)) @@ @]],
                 OrderPlacedEvent(order_id, user_addr, price, quantity, side,
                                  current_time))

place_order_for_user(st, current_time, facilitator, order_book_addr, user_addr, price, quantity, side) ==
    IF order_book_addr \notin DOMAIN st.OrderBook
    THEN Abort(st, "E_ORDER_BOOK_NOT_INITIALIZED")
    ELSE IF ~(price > 0) THEN Abort(st, "E_INVALID_PRICE")
    ELSE IF ~(quantity > 0) THEN Abort(st, "E_INVALID_QUANTITY")
    ELSE LET order_book == st.OrderBook[order_book_addr] IN
    IF side = ORDER_SIDE_BID /\ price * quantity > MAX_U64
    THEN Abort(st, "ARITHMETIC_ERROR")
    ELSE LET lock_amount == IF side = ORDER_SIDE_BID THEN price * quantity ELSE quantity
             locked == lock_balance(st, order_book.vault_address, user_addr, lock_amount)
             order_id == order_book.next_order_id
    IN IF locked.err # OK THEN locked
       ELSE IF order_id + 1 > MAX_U64 THEN Abort(locked, "ARITHMETIC_ERROR")
       ELSE emit([locked EXCEPT !.OrderBook[order_book_addr] =
                    [order_book EXCEPT
                        !.next_order_id = order_id + 1,
                        !.orders = (order_id :>
                            Order(order_id, user_addr, price, quantity, 0, side,
                                  ORDER_STATUS_OPEN, current_time)) @@ @,
                        !.user_orders =
                            (user_addr :> Append(IF user_addr \in DOMAIN @ THEN @[user_addr]
                                                 ELSE <<>>, order_id)) @@ @]],
                 OrderPlacedEvent(order_id, user_addr, price, quantity, side,
                                  current_time))

\* cancel_order without the check of the order's status.
cancel_order_any_status(st, current_time, owner, order_book_addr, order_id) ==
    IF order_book_addr \notin DOMAIN st.OrderBook
    THEN Abort(st, "E_ORDER_BOOK_NOT_INITIALIZED")
    ELSE LET order_book == st.OrderBook[order_book_addr] IN
    IF order_id \notin DOMAIN order_book.orders THEN Abort(st, "E_ORDER_NOT_FOUND")
    ELSE LET order == order_book.orders[order_id] IN
    IF ~(order.owner = owner) THEN Abort(st, "E_UNAUTHORIZED")
    ELSE IF order.quantity < order.filled_quantity THEN Abort(st, "ARITHMETIC_ERROR")
    ELSE LET remaining_quantity == order.quantity - order.filled_quantity IN
    IF order.side = ORDER_SIDE_BID /\ order.price * remaining_quantity > MAX_U64
    THEN Abort(st, "ARITHMETIC_ERROR")
    ELSE LET unlock_amount ==
                 IF order.side = ORDER_SIDE_BID THEN order.price * remaining_quantity
                 ELSE remaining_quantity
             unlocked == unlock_balance(st, order_book.vault_address, owner, unlock_amount)
    IN IF unlocked.err # OK THEN unlocked
       ELSE emit([unlocked EXCEPT
                    !.OrderBook[order_book_addr].orders[order_id].status =
                        ORDER_STATUS_CANCELLED],
                 OrderCancelledEvent(order_id, owner, current_time))

\* cancel_order unlocking what the order reserved when placed, filled or not.
cancel_order_unlocking_all(st, current_time, owner, order_book_addr, order_id) ==
    IF order_book_addr \notin DOMAIN st.OrderBook
    THEN Abort(st, "E_ORDER_BOOK_NOT_INITIALIZED")
    ELSE LET order_book == st.OrderBook[order_book_addr] IN
    IF order_id \notin DOMAIN order_book.orders THEN Abort(st, "E_ORDER_NOT_FOUND")
    ELSE LET order == order_book.orders[order_id] IN
    IF ~(order.owner = owner) THEN Abort(st, "E_UNAUTHORIZED")
    ELSE IF ~(order.status = ORDER_STATUS_OPEN
              \/ order.status = ORDER_STATUS_PARTIALLY_FILLED)
    THEN Abort(st, "E_INVALID_ORDER_ID")
    ELSE LET unlock_amount ==
                 IF order.side = ORDER_SIDE_BID THEN order.price * order.quantity
                 ELSE order.quantity
             unlocked == unlock_balance(st, order_book.vault_address, owner, unlock_amount)
    IN IF unlocked.err # OK THEN unlocked
       ELSE emit([unlocked EXCEPT
                    !.OrderBook[order_book_addr].orders[order_id].status =
                        ORDER_STATUS_CANCELLED],
                 OrderCancelledEvent(order_id, owner, current_time))

\* cancel_order without the check that the caller owns the order.
cancel_order_by_anyone(st, current_time, owner, order_book_addr, order_id) ==
    IF order_book_addr \notin DOMAIN st.OrderBook
    THEN Abort(st, "E_ORDER_BOOK_NOT_INITIALIZED")
    ELSE LET order_book == st.OrderBook[order_book_addr] IN
    IF order_id \notin DOMAIN order_book.orders THEN Abort(st, "E_ORDER_NOT_FOUND")
    ELSE LET order == order_book.orders[order_id] IN
    IF ~(order.status = ORDER_STATUS_OPEN
         \/ order.status = ORDER_STATUS_PARTIALLY_FILLED)
    THEN Abort(st, "E_INVALID_ORDER_ID")
    ELSE IF order.quantity < order.filled_quantity THEN Abort(st, "ARITHMETIC_ERROR")
    ELSE LET remaining_quantity == order.quantity - order.filled_quantity IN
    IF order.side = ORDER_SIDE_BID /\ order.price * remaining_quantity > MAX_U64
    THEN Abort(st, "ARITHMETIC_ERROR")
    ELSE LET unlock_amount ==
                 IF order.side = ORDER_SIDE_BID THEN order.price * remaining_quantity
                 ELSE remaining_quantity
             unlocked == unlock_balance(st, order_book.vault_address, order.owner, unlock_amount)
    IN IF unlocked.err # OK THEN unlocked
       ELSE emit([unlocked EXCEPT
                    !.OrderBook[order_book_addr].orders[order_id].status =
                        ORDER_STATUS_CANCELLED],
                 OrderCancelledEvent(order_id, order.owner, current_time))

cancel_order(st, current_time, owner, order_book_addr, order_id) ==
    IF order_book_addr \notin DOMAIN st.OrderBook
    THEN Abort(st, "E_ORDER_BOOK_NOT_INITIALIZED")
    ELSE LET order_book == st.OrderBook[order_book_addr] IN
    IF order_id \notin DOMAIN order_book.orders THEN Abort(st, "E_ORDER_NOT_FOUND")
    ELSE LET order == order_book.orders[order_id] IN
    IF ~(order.owner = owner) THEN Abort(st, "E_UNAUTHORIZED")
    ELSE IF ~(order.status = ORDER_STATUS_OPEN
              \/ order.status = ORDER_STATUS_PARTIALLY_FILLED)
    THEN Abort(st, "E_INVALID_ORDER_ID")
    ELSE IF order.quantity < order.filled_quantity THEN Abort(st, "ARITHMETIC_ERROR")
    ELSE LET remaining_quantity == order.quantity - order.filled_quantity IN
    IF order.side = ORDER_SIDE_BID /\ order.price * remaining_quantity > MAX_U64
    THEN Abort(st, "ARITHMETIC_ERROR")
    ELSE LET unlock_amount ==
                 IF order.side = ORDER_SIDE_BID THEN order.price * remaining_quantity
                 ELSE remaining_quantity
             unlocked == unlock_balance(st, order_book.vault_address, owner, unlock_amount)
    IN IF unlocked.err # OK THEN unlocked
       ELSE emit([unlocked EXCEPT
                    !.OrderBook[order_book_addr].orders[order_id].status =
                        ORDER_STATUS_CANCELLED],
                 OrderCancelledEvent(order_id, owner, current_time))

\* fill_order with the remaining quantity saturating at 0 instead of aborting.
fill_order_unchecked(st, current_time, facilitator, order_book_addr, maker_order_id, taker_address, fill_quantity) ==
    IF order_book_addr \notin DOMAIN st.OrderBook
    THEN Abort(st, "E_ORDER_BOOK_NOT_INITIALIZED")
    ELSE LET order_book == st.OrderBook[order_book_addr] IN
    IF maker_order_id \notin DOMAIN order_book.orders THEN Abort(st, "E_ORDER_NOT_FOUND")
    ELSE LET order == order_book.orders[maker_order_id] IN
    IF ~(order.status = ORDER_STATUS_OPEN
         \/ order.status = ORDER_STATUS_PARTIALLY_FILLED)
    THEN Abort(st, "E_INVALID_ORDER_ID")
    ELSE IF order.price * fill_quantity > MAX_U64 THEN Abort(st, "ARITHMETIC_ERROR")
    ELSE LET fill_value == order.price * fill_quantity
             first ==
                 IF order.side = ORDER_SIDE_BID
                 THEN settle_order(st, order_book.vault_address, order.owner,
                                   taker_address, fill_value)
                 ELSE settle_order(st, order_book.vault_address, order.owner,
                                   taker_address, fill_quantity)
             second ==
                 IF order.side = ORDER_SIDE_BID
                 THEN settle_order(first, order_book.vault_address, taker_address,
                                   order.owner, fill_quantity)
                 ELSE settle_order(first, order_book.vault_address, taker_address,
                                   order.owner, fill_value)
    IN IF first.err # OK THEN first
       ELSE IF second.err # OK THEN second
       ELSE IF order.filled_quantity + fill_quantity > MAX_U64
       THEN Abort(second, "ARITHMETIC_ERROR")
       ELSE LET remaining ==
                    IF order.quantity < order.filled_quantity + fill_quantity THEN 0
                    ELSE order.quantity - (order.filled_quantity + fill_quantity)
            IN emit([second EXCEPT
                        !.OrderBook[order_book_addr].orders[maker_order_id] =
                            [order EXCEPT
                                !.filled_quantity = @ + fill_quantity,
                                !.status = IF remaining = 0 THEN ORDER_STATUS_FILLED
                                           ELSE ORDER_STATUS_PARTIALLY_FILLED]],
                     OrderFilledEvent(maker_order_id, order.owner, fill_quantity,
                                      remaining, current_time))

\* fill_order storing this call's fill_quantity as the order's filled_quantity.
fill_order_overwriting(st, current_time, facilitator, order_book_addr, maker_order_id, taker_address, fill_quantity) ==
    IF order_book_addr \notin DOMAIN st.OrderBook
    THEN Abort(st, "E_ORDER_BOOK_NOT_INITIALIZED")
    ELSE LET order_book == st.OrderBook[order_book_addr] IN
    IF maker_order_id \notin DOMAIN order_book.orders THEN Abort(st, "E_ORDER_NOT_FOUND")
    ELSE LET order == order_book.orders[maker_order_id] IN
    IF ~(order.status = ORDER_STATUS_OPEN
         \/ order.status = ORDER_STATUS_PARTIALLY_FILLED)
    THEN Abort(st, "E_INVALID_ORDER_ID")
    ELSE IF order.price * fill_quantity > MAX_U64 THEN Abort(st, "ARITHMETIC_ERROR")
    ELSE LET fill_value == order.price * fill_quantity
             first ==
                 IF order.side = ORDER_SIDE_BID
                 THEN settle_order(st, order_book.vault_address, order.owner,
                                   taker_address, fill_value)
                 ELSE settle_order(st, order_book.vault_address, order.owner,
                                   taker_address, fill_quantity)
             second ==
                 IF order.side = ORDER_SIDE_BID
                 THEN settle_order(first, order_book.vault_address, taker_address,
                                   order.owner, fill_quantity)
                 ELSE settle_order(first, order_book.vault_address, taker_address,
                                   order.owner, fill_value)
    IN IF first.err # OK THEN first
       ELSE IF second.err # OK THEN second
       ELSE IF order.filled_quantity + fill_quantity > MAX_U64
       THEN Abort(second, "ARITHMETIC_ERROR")
       ELSE IF order.quantity < order.filled_quantity + fill_quantity
       THEN Abort([second EXCEPT
                     !.OrderBook[order_book_addr].orders[maker_order_id].filled_quantity =
                         @ + fill_quantity], "ARITHMETIC_ERROR")
       ELSE LET remaining == order.quantity - (order.filled_quantity + fill_quantity)
            IN emit([second EXCEPT
                        !.OrderBook[order_book_addr].orders[maker_order_id] =
                            [order EXCEPT
                                !.filled_quantity = fill_quantity,
                                !.status = IF remaining = 0 THEN ORDER_STATUS_FILLED
                                           ELSE ORDER_STATUS_PARTIALLY_FILLED]],
                     OrderFilledEvent(maker_order_id, order.owner, fill_quantity,
                                      remaining, current_time))

\* fill_order crediting the taker's leg back to the taker, not to the maker.
fill_order_crediting_taker(st, current_time, facilitator, order_book_addr, maker_order_id, taker_address, fill_quantity) ==
    IF order_book_addr \notin DOMAIN st.OrderBook
    THEN Abort(st, "E_ORDER_BOOK_NOT_INITIALIZED")
    ELSE LET order_book == st.OrderBook[order_book_addr] IN
    IF maker_order_id \notin DOMAIN order_book.orders THEN Abort(st, "E_ORDER_NOT_FOUND")
    ELSE LET order == order_book.orders[maker_order_id] IN
    IF ~(order.status = ORDER_STATUS_OPEN
         \/ order.status = ORDER_STATUS_PARTIALLY_FILLED)
    THEN Abort(st, "E_INVALID_ORDER_ID")
    ELSE IF order.price * fill_quantity > MAX_U64 THEN Abort(st, "ARITHMETIC_ERROR")
    ELSE LET fill_value == order.price * fill_quantity
             first ==
                 IF order.side = ORDER_SIDE_BID
                 THEN settle_order(st, order_book.vault_address, order.owner,
                                   taker_address, fill_value)
                 ELSE settle_order(st, order_book.vault_address, order.owner,
                                   taker_address, fill_quantity)
             second ==
                 IF order.side = ORDER_SIDE_BID
                 THEN settle_order(first, order_book.vault_address, taker_address,
                                   taker_address, fill_quantity)
                 ELSE settle_order(first, order_book.vault_address, taker_address,
                                   taker_address, fill_value)
    IN IF first.err # OK THEN first
       ELSE IF second.err # OK THEN second
       ELSE IF order.filled_quantity + fill_quantity > MAX_U64
       THEN Abort(second, "ARITHMETIC_ERROR")
       ELSE IF order.quantity < order.filled_quantity + fill_quantity
       THEN Abort([second EXCEPT
                     !.OrderBook[order_book_addr].orders[maker_order_id].filled_quantity =
                         @ + fill_quantity], "ARITHMETIC_ERROR")
       ELSE LET remaining == order.quantity - (order.filled_quantity + fill_quantity)
            IN emit([second EXCEPT
                        !.OrderBook[order_book_addr].orders[maker_order_id] =
                            [order EXCEPT
                                !.filled_quantity = @ + fill_quantity,
                                !.status = IF remaining = 0 THEN ORDER_STATUS_FILLED
                                           ELSE ORDER_STATUS_PARTIALLY_FILLED]],
                     OrderFilledEvent(maker_order_id, order.owner, fill_quantity,
                                      remaining, current_time))

\* fill_order reporting the order's total filled_quantity in its event.
fill_order_reporting_total(st, current_time, facilitator, order_book_addr, maker_order_id, taker_address, fill_quantity) ==
    IF order_book_addr \notin DOMAIN st.OrderBook
    THEN Abort(st, "E_ORDER_BOOK_NOT_INITIALIZED")
    ELSE LET order_book == st.OrderBook[order_book_addr] IN
    IF maker_order_id \notin DOMAIN order_book.orders THEN Abort(st, "E_ORDER_NOT_FOUND")
    ELSE LET order == order_book.orders[maker_order_id] IN
    IF ~(order.status = ORDER_STATUS_OPEN
         \/ order.status = ORDER_STATUS_PARTIALLY_FILLED)
    THEN Abort(st, "E_INVALID_ORDER_ID")
    ELSE IF order.price * fill_quantity > MAX_U64 THEN Abort(st, "ARITHMETIC_ERROR")
    ELSE LET fill_value == order.price * fill_quantity
             first ==
                 IF order.side = ORDER_SIDE_BID
                 THEN settle_order(st, order_book.vault_address, order.owner,
                                   taker_address, fill_value)
                 ELSE settle_order(st, order_book.vault_address, order.owner,
                                   taker_address, fill_quantity)
             second ==
                 IF order.side = ORDER_SIDE_BID
                 THEN settle_order(first, order_book.vault_address, taker_address,
                                   order.owner, fill_quantity)
                 ELSE settle_order(first, order_book.vault_address, taker_address,
                                   order.owner, fill_value)
    IN IF first.err # OK THEN first
       ELSE IF second.err # OK THEN second
       ELSE IF order.filled_quantity + fill_quantity > MAX_U64
       THEN Abort(second, "ARITHMETIC_ERROR")
       ELSE IF order.quantity < order.filled_quantity + fill_quantity
       THEN Abort([second EXCEPT
                     !.OrderBook[order_book_addr].orders[maker_order_id].filled_quantity =
                         @ + fill_quantity], "ARITHMETIC_ERROR")
       ELSE LET remaining == order.quantity - (order.filled_quantity + fill_quantity)
            IN emit([second EXCEPT
                        !.OrderBook[order_book_addr].orders[maker_order_id] =
                            [order EXCEPT
                                !.filled_quantity = @ + fill_quantity,
                                !.status = IF remaining = 0 THEN ORDER_STATUS_FILLED
                                           ELSE ORDER_STATUS_PARTIALLY_FILLED]],
                     OrderFilledEvent(maker_order_id, order.owner,
                                      order.filled_quantity + fill_quantity,
                                      remaining, current_time))

fill_order(st, current_time, facilitator, order_book_addr, maker_order_id, taker_address, fill_quantity) ==
    IF order_book_addr \notin DOMAIN st.OrderBook
    THEN Abort(st, "E_ORDER_BOOK_NOT_INITIALIZED")
    ELSE LET order_book == st.OrderBook[order_book_addr] IN
    IF maker_order_id \notin DOMAIN order_book.orders THEN Abort(st, "E_ORDER_NOT_FOUND")
    ELSE LET order == order_book.orders[maker_order_id] IN
    IF ~(order.status = ORDER_STATUS_OPEN
         \/ order.status = ORDER_STATUS_PARTIALLY_FILLED)
    THEN Abort(st, "E_INVALID_ORDER_ID")
    ELSE IF order.price * fill_quantity > MAX_U64 THEN Abort(st, "ARITHMETIC_ERROR")
    ELSE LET fill_value == order.price * fill_quantity
             first ==
                 IF order.side = ORDER_SIDE_BID
                 THEN settle_order(st, order_book.vault_address, order.owner,
                                   taker_address, fill_value)
                 ELSE settle_order(st, order_book.vault_address, order.owner,
                                   taker_address, fill_quantity)
             second ==
                 IF order.side = ORDER_SIDE_BID
                 THEN settle_order(first, order_book.vault_address, taker_address,
                                   order.owner, fill_quantity)
                 ELSE settle_order(first, order_book.vault_address, taker_address,
                                   order.owner, fill_value)
    IN IF first.err # OK THEN first
       ELSE IF second.err # OK THEN second
       ELSE IF order.filled_quantity + fill_quantity > MAX_U64
       THEN Abort(second, "ARITHMETIC_ERROR")
       ELSE IF order.quantity < order.filled_quantity + fill_quantity
       THEN Abort([second EXCEPT
                     !.OrderBook[order_book_addr].orders[maker_order_id].filled_quantity =
                         @ + fill_quantity], "ARITHMETIC_ERROR")
       ELSE LET remaining == order.quantity - (order.filled_quantity + fill_quantity)
            IN emit([second EXCEPT
                        !.OrderBook[order_book_addr].orders[maker_order_id] =
                            [order EXCEPT
                                !.filled_quantity = @ + fill_quantity,
                                !.status = IF remaining = 0 THEN ORDER_STATUS_FILLED
                                           ELSE ORDER_STATUS_PARTIALLY_FILLED]],
                     OrderFilledEvent(maker_order_id, order.owner, fill_quantity,
                                      remaining, current_time))

get_order(st, order_book_addr, order_id) == st.OrderBook[order_book_addr].orders[order_id]

get_user_orders(st, order_book_addr, user) ==
    LET user_orders == st.OrderBook[order_book_addr].user_orders
    IN IF user \in DOMAIN user_orders THEN user_orders[user] ELSE <<>>

\* ------------------------------------------------------------ the chain
Idle == [op |-> "idle", args |-> [none |-> TRUE], err |-> OK, events |-> <<>>]

Init ==
    /\ now = 0
    /\ NonceStore = <<>>
    /\ CoinStore = [a \in Addr |-> InitCoin]
    /\ Vault = <<>>
    /\ OrderBook = <<>>
    /\ payment_log = [p \in Users \X (1..MaxNonce) |-> 0]
    /\ tx = Idle
    /\ used_nonces = {}
    /\ requests = <<>>

PaymentsIn(events) ==
    [p \in Users \X (1..MaxNonce) |->
        Cardinality({i \in DOMAIN events :
            /\ events[i].type = "PaymentExecutedEvent"
            /\ <<events[i].sender, events[i].nonce>> = p})]

\* The transaction `op(args)` ran on the current storage up to storage `ran`.
Execute(op, args, ran) ==
    LET r == execute_transaction(Storage, ran) IN
    /\ tx = Idle
    /\ NonceStore' = r.NonceStore
    /\ CoinStore' = r.CoinStore
    /\ Vault' = r.Vault
    /\ OrderBook' = r.OrderBook
    /\ payment_log' = [p \in DOMAIN payment_log |-> payment_log[p] + PaymentsIn(r.events)[p]]
    /\ tx' = [op |-> op, args |-> args, err |-> r.err, events |-> r.events]
    /\ UNCHANGED now

\* A transaction submitted by an account itself, not through the relayer.
Commit(op, args, ran) ==
    /\ Execute(op, args, ran)
    /\ UNCHANGED <<used_nonces, requests>>

\* The submitter has read the transaction's outcome.
Ack ==
    /\ tx # Idle
    /\ tx' = Idle
    /\ UNCHANGED <<now, NonceStore, CoinStore, Vault, OrderBook, payment_log, used_nonces,
                   requests>>

Tick ==
    /\ tx = Idle
    /\ now < MaxTime
    /\ now' = now + 1
    /\ UNCHANGED <<NonceStore, CoinStore, Vault, OrderBook, payment_log, tx, used_nonces,
                   requests>>

\* The authorizations a caller can present for a payload: the sender's own
\* signature, a signature made with another account's key (presented with
\* that key or with the sender's), the sender's signature over another
\* amount, a signature of the wrong size, and a public key of the wrong size.
OtherKey(sender) == IF sender = "u1" THEN "u2" ELSE "u1"

Authorizations(sender, recipient, amount, nonce, expiry) ==
    LET message == construct_authorization_message(sender, recipient, amount, nonce, expiry)
        other == construct_authorization_message(sender, recipient, amount + 1, nonce, expiry)
    IN { [signature |-> [key |-> sender, msg |-> message, size_ok |-> TRUE],
          public_key |-> sender],
         [signature |-> [key |-> OtherKey(sender), msg |-> message, size_ok |-> TRUE],
          public_key |-> OtherKey(sender)],
         [signature |-> [key |-> OtherKey(sender), msg |-> message, size_ok |-> TRUE],
          public_key |-> sender],
         [signature |-> [key |-> sender, msg |-> other, size_ok |-> TRUE],
          public_key |-> sender],
         [signature |-> [key |-> sender, msg |-> message, size_ok |-> FALSE],
          public_key |-> sender],
         [signature |-> [key |-> sender, msg |-> message, size_ok |-> TRUE],
          public_key |-> ShortKey] }

InitializeNonceStore ==
    \E account \in Users :
        Commit("initialize_nonce_store", [account |-> account],
               initialize_nonce_store(Storage, account))

TransferWithAuthorization ==
    \E facilitator \in {Facilitator, "u1"}, sender \in Users, recipient \in Users,
       amount \in 1..MaxAmount, nonce \in 1..MaxNonce, expiry \in 0..MaxTime :
        \E auth \in Authorizations(sender, recipient, amount, nonce, expiry) :
            Commit("transfer_with_authorization",
                   [facilitator |-> facilitator, sender |-> sender,
                    recipient |-> recipient, amount |-> amount, nonce |-> nonce,
                    expiry |-> expiry, signature |-> auth.signature,
                    public_key |-> auth.public_key],
                   transfer_with_authorization(Storage, now, facilitator, sender,
                       recipient, amount, nonce, expiry, auth.signature,
                       auth.public_key))

NextPay == Tick \/ Ack \/ InitializeNonceStore \/ TransferWithAuthorization

SpecPay == Init /\ [][NextPay]_vars

InitializeVault(traders) ==
    \E reference_trader \in traders :
        Commit("initialize_vault", [admin |-> Admin, reference_trader |-> reference_trader],
               initialize_vault(Storage, Admin, reference_trader))

Deposit ==
    \E user \in Users, amount \in 0..MaxAmount :
        Commit("deposit", [user |-> user, vault_addr |-> Admin, amount |-> amount],
               deposit(Storage, now, user, Admin, amount))

CreditDeposit ==
    \E user \in Users, amount \in 0..MaxAmount :
        Commit("credit_deposit",
               [user |-> user, vault_addr |-> Admin, amount |-> amount],
               credit_deposit(Storage, now, Facilitator, Admin, user, amount))

Withdraw ==
    \E user \in Users, shares \in 0..MaxAmount :
        Commit("withdraw", [user |-> user, vault_addr |-> Admin, shares |-> shares],
               withdraw(Storage, now, user, Admin, shares))

RecordVaultTrade ==
    \E trade_amount \in 1..MaxAmount :
        Commit("record_vault_trade", [vault_addr |-> Admin, trade_amount |-> trade_amount],
               record_vault_trade(Storage, now, Facilitator, Admin, trade_amount))

InitializeOrderBook ==
    Commit("initialize_order_book", [admin |-> Admin, vault_address |-> Admin],
           initialize_order_book(Storage, Admin, Admin))

\* The book takes orders while it holds fewer than MaxOrders.
BookOpen ==
    Admin \in DOMAIN OrderBook => OrderBook[Admin].next_order_id <= MaxOrders

PlaceOrder ==
    /\ BookOpen
    /\ \E user \in Users, price \in {0, 1, MaxPrice}, quantity \in 0..MaxQuantity,
          side \in {ORDER_SIDE_BID, ORDER_SIDE_ASK} :
        Commit("place_order",
               [user |-> user, price |-> price, quantity |-> quantity, side |-> side],
               place_order(Storage, now, user, Admin, price, quantity, side))

PlaceOrderForUser ==
    /\ BookOpen
    /\ \E user \in Users, price \in {0, 1, MaxPrice}, quantity \in 0..MaxQuantity,
          side \in {ORDER_SIDE_BID, ORDER_SIDE_ASK} :
        Commit("place_order_for_user",
               [user |-> user, price |-> price, quantity |-> quantity, side |-> side],
               place_order_for_user(Storage, now, Facilitator, Admin, user, price,
                                    quantity, side))

CancelOrder ==
    \E caller \in Addr, order_id \in 1..(MaxOrders + 1) :
        Commit("cancel_order", [caller |-> caller, order_id |-> order_id],
               cancel_order(Storage, now, caller, Admin, order_id))

FillOrder ==
    \E maker_order_id \in 1..(MaxOrders + 1), taker \in Users,
       fill_quantity \in 0..MaxQuantity :
        Commit("fill_order",
               [maker_order_id |-> maker_order_id, taker |-> taker,
                fill_quantity |-> fill_quantity],
               fill_order(Storage, now, Facilitator, Admin, maker_order_id, taker,
                          fill_quantity))

\* The vault alone: deposits, credits and withdrawals of both users.
NextVault ==
    \/ Ack
    \/ InitializeVault(Users)
    \/ Deposit
    \/ CreditDeposit
    \/ Withdraw
    \/ RecordVaultTrade

SpecVault == Init /\ [][NextVault]_vars

\* The order book over a vault funded by credit_deposit.
NextBook ==
    \/ Ack
    \/ InitializeVault({"u1"})
    \/ CreditDeposit
    \/ InitializeOrderBook
    \/ PlaceOrder
    \/ PlaceOrderForUser
    \/ CancelOrder
    \/ FillOrder

SpecBook == Init /\ [][NextBook]_vars

\* strategy_vault's public functions called directly, as any module or
\* script may call them, on a vault funded by credit_deposit.
LockBalance ==
    \E user \in Users, amount \in 0..MaxAmount :
        Commit("lock_balance", [vault_addr |-> Admin, user |-> user, amount |-> amount],
               lock_balance(Storage, Admin, user, amount))

UnlockBalance ==
    \E user \in Users, amount \in 0..MaxAmount :
        Commit("unlock_balance", [vault_addr |-> Admin, user |-> user, amount |-> amount],
               unlock_balance(Storage, Admin, user, amount))

SettleOrder ==
    \E from \in Users, to \in Users, amount \in 0..MaxAmount :
        Commit("settle_order",
               [vault_addr |-> Admin, from |-> from, to |-> to, amount |-> amount],
               settle_order(Storage, Admin, from, to, amount))

NextLock ==
    \/ Ack
    \/ InitializeVault({"u1"})
    \/ CreditDeposit
    \/ LockBalance
    \/ UnlockBalance
    \/ SettleOrder

SpecLock == Init /\ [][NextLock]_vars

\* The vault with balances locked, under deposits and withdrawals.
NextFrame ==
    \/ Ack
    \/ InitializeVault({"u1"})
    \/ Deposit
    \/ CreditDeposit
    \/ Withdraw
    \/ RecordVaultTrade
    \/ LockBalance

SpecFrame == Init /\ [][NextFrame]_vars

\* One account funding the vault, placing orders and taking its own orders.
Trader == "u1"

TraderDeposit ==
    \E amount \in 0..MaxAmount :
        Commit("deposit", [user |-> Trader, vault_addr |-> Admin, amount |-> amount],
               deposit(Storage, now, Trader, Admin, amount))

TraderCreditDeposit ==
    \E amount \in 0..MaxAmount :
        Commit("credit_deposit", [user |-> Trader, vault_addr |-> Admin, amount |-> amount],
               credit_deposit(Storage, now, Facilitator, Admin, Trader, amount))

TraderWithdraw ==
    \E shares \in 0..MaxAmount :
        Commit("withdraw", [user |-> Trader, vault_addr |-> Admin, shares |-> shares],
               withdraw(Storage, now, Trader, Admin, shares))

TraderPlaceOrder ==
    /\ BookOpen
    /\ \E price \in {0, 1, MaxPrice}, quantity \in 0..MaxQuantity,
          side \in {ORDER_SIDE_BID, ORDER_SIDE_ASK} :
        Commit("place_order",
               [user |-> Trader, price |-> price, quantity |-> quantity, side |-> side],
               place_order(Storage, now, Trader, Admin, price, quantity, side))

TraderFillOrder ==
    \E maker_order_id \in 1..(MaxOrders + 1), fill_quantity \in 0..MaxQuantity :
        Commit("fill_order",
               [maker_order_id |-> maker_order_id, taker |-> Trader,
                fill_quantity |-> fill_quantity],
               fill_order(Storage, now, Facilitator, Admin, maker_order_id, Trader,
                          fill_quantity))

\* Deposits, withdrawals, orders and fills of the one trader, where balances
\* outgrow the vault's totals and every sum and product can leave the range.
NextArith ==
    \/ Ack
    \/ InitializeVault({"u1"})
    \/ InitializeOrderBook
    \/ TraderDeposit
    \/ TraderCreditDeposit
    \/ TraderWithdraw
    \/ TraderPlaceOrder
    \/ TraderFillOrder

SpecArith == Init /\ [][NextArith]_vars

TraderCancelOrder ==
    \E order_id \in 1..(MaxOrders + 1) :
        Commit("cancel_order", [caller |-> Trader, order_id |-> order_id],
               cancel_order(Storage, now, Trader, Admin, order_id))

TraderInitializeNonceStore ==
    Commit("initialize_nonce_store", [account |-> Trader],
           initialize_nonce_store(Storage, Trader))

\* The trader's authorization of nonce 1, signed with the trader's key or
\* with another account's.
TraderTransfer ==
    \E key \in Users :
        LET message == construct_authorization_message(Trader, "u2", 1, 1, MaxTime)
            signature == [key |-> key, msg |-> message, size_ok |-> TRUE]
        IN Commit("transfer_with_authorization",
                  [facilitator |-> Facilitator, sender |-> Trader, recipient |-> "u2",
                   amount |-> 1, nonce |-> 1, expiry |-> MaxTime,
                   signature |-> signature, public_key |-> Trader],
                  transfer_with_authorization(Storage, now, Facilitator, Trader, "u2", 1,
                      1, MaxTime, signature, Trader))

\* Every operation that emits an event, called by or for the one trader.
NextEvents ==
    \/ Ack
    \/ InitializeVault({"u1"})
    \/ InitializeOrderBook
    \/ TraderDeposit
    \/ TraderCreditDeposit
    \/ TraderWithdraw
    \/ TraderPlaceOrder
    \/ TraderCancelOrder
    \/ TraderFillOrder
    \/ TraderInitializeNonceStore
    \/ TraderTransfer

SpecEvents == Init /\ [][NextEvents]_vars

\* ----------------------------------------------------------- the relayer
\* services/nonceService: the relayer's record of used nonces, a set of
\* (user, nonce) pairs. markNonceUsed records a pair.
markNonceUsed(cache, user, nonce) == cache \cup {<<user, nonce>>}

\* isNonceUsed before its lookup: the record answers for a pair it holds.
isNonceUsed_cached(cache, user, nonce) == <<user, nonce>> \in cache

\* isNonceUsed after its lookup: the chain's answer is the result, and a
\* pair reported used is recorded.
isNonceUsed_resolved(cache, user, nonce, on_chain) ==
    [result |-> on_chain,
     cache |-> IF on_chain THEN markNonceUsed(cache, user, nonce) ELSE cache]

\* isNonceUsed with the lookup answered on the spot: `consulted` is whether
\* the chain was asked.
isNonceUsed(cache, user, nonce, on_chain) ==
    IF isNonceUsed_cached(cache, user, nonce)
    THEN [result |-> TRUE, consulted |-> FALSE, cache |-> cache]
    ELSE [result |-> on_chain, consulted |-> TRUE,
          cache |-> isNonceUsed_resolved(cache, user, nonce, on_chain).cache]

NoReason == "undefined"
AuthorizationExpired == "Authorization expired"
NonceAlreadyUsed == "Nonce already used (replay attack)"

\* validateNonceAndExpiry with the lookup answered on the spot: the expiry is
\* checked first, then the nonce.
validateNonceAndExpiry(cache, current_time, user, nonce, expiry, on_chain) ==
    IF expiry < current_time
    THEN [valid |-> FALSE, reason |-> AuthorizationExpired, consulted |-> FALSE,
          cache |-> cache]
    ELSE LET used == isNonceUsed(cache, user, nonce, on_chain)
         IN [valid |-> ~used.result,
             reason |-> IF used.result THEN NonceAlreadyUsed ELSE NoReason,
             consulted |-> used.consulted, cache |-> used.cache]

\* services/aptosService isNonceUsed: the view payment_with_auth::is_nonce_used
\* read from the chain.
aptos_isNonceUsed(st, user, nonce) == is_nonce_used(st, user, nonce)

\* A request the relayer has received: its route and fields, where its
\* handler stands ("lookup": awaiting the chain's answer about the nonce,
\* "answered": the answer has arrived, "submit": awaiting the transaction,
\* "done": responded), the chain's answer, and the response.
Request(route, user, nonce, expiry) ==
    [route |-> route, user |-> user, nonce |-> nonce, expiry |-> expiry,
     pc |-> "lookup", on_chain |-> FALSE, status |-> 0, reason |-> NoReason]

Respond(request, status, reason) ==
    [request EXCEPT !.pc = "done", !.status = status, !.reason = reason]

ChainUntouched == UNCHANGED <<now, NonceStore, CoinStore, Vault, OrderBook, payment_log, tx>>

\* The order and the payment the trader's requests carry.
TraderOrder == [price |-> 1, quantity |-> 1, side |-> ORDER_SIDE_BID]
TraderPayment == [recipient |-> "u2", amount |-> 1]

\* POST /place up to its await of isNonceUsed.
PostPlace ==
    \E nonce \in 1..MaxNonce, expiry \in 0..MaxTime, isValid \in BOOLEAN :
        LET request == Request("place", Trader, nonce, expiry)
            currentTime == now
        IN /\ Len(requests) < MaxRequests
           /\ requests' = Append(requests,
                IF ~isValid THEN Respond(request, 401, "Invalid signature")
                ELSE IF currentTime > expiry
                THEN Respond(request, 400, AuthorizationExpired)
                ELSE IF isNonceUsed_cached(used_nonces, Trader, nonce)
                THEN Respond(request, 400, "Invalid or already used nonce")
                ELSE request)
           /\ UNCHANGED used_nonces
           /\ ChainUntouched

\* POST /submit-authorization up to the await inside validateNonceAndExpiry.
PostSubmitAuthorization ==
    \E nonce \in 1..MaxNonce, expiry \in 0..MaxTime :
        LET request == Request("submit-authorization", Trader, nonce, expiry)
            validation == validateNonceAndExpiry(used_nonces, now, Trader, nonce,
                                                 expiry, FALSE)
        IN /\ Len(requests) < MaxRequests
           /\ requests' = Append(requests,
                IF ~validation.consulted
                THEN Respond(request, 400, validation.reason)
                ELSE request)
           /\ UNCHANGED used_nonces
           /\ ChainUntouched

\* The chain answers a request's lookup of its nonce.
NonceLookup ==
    \E i \in DOMAIN requests :
        /\ requests[i].pc = "lookup"
        /\ requests' = [requests EXCEPT
               ![i].pc = "answered",
               ![i].on_chain = aptos_isNonceUsed(Storage, requests[i].user,
                                                 requests[i].nonce)]
        /\ UNCHANGED used_nonces
        /\ ChainUntouched

\* POST /place going on to the submission without markNonceUsed.
PlaceResume_without_marking ==
    \E i \in DOMAIN requests :
        LET request == requests[i]
            used == isNonceUsed_resolved(used_nonces, request.user, request.nonce,
                                         request.on_chain)
            nonceAlreadyUsed == used.result
        IN /\ request.route = "place"
           /\ request.pc = "answered"
           /\ IF nonceAlreadyUsed
              THEN /\ requests' = [requests EXCEPT
                          ![i] = Respond(request, 400, "Invalid or already used nonce")]
                   /\ used_nonces' = used.cache
              ELSE /\ requests' = [requests EXCEPT ![i].pc = "submit"]
                   /\ used_nonces' = used.cache
           /\ ChainUntouched

\* POST /place from the answer of isNonceUsed to the submission.
PlaceResume ==
    \E i \in DOMAIN requests :
        LET request == requests[i]
            used == isNonceUsed_resolved(used_nonces, request.user, request.nonce,
                                         request.on_chain)
            nonceAlreadyUsed == used.result
        IN /\ request.route = "place"
           /\ request.pc = "answered"
           /\ IF nonceAlreadyUsed
              THEN /\ requests' = [requests EXCEPT
                          ![i] = Respond(request, 400, "Invalid or already used nonce")]
                   /\ used_nonces' = used.cache
              ELSE /\ requests' = [requests EXCEPT ![i].pc = "submit"]
                   /\ used_nonces' = markNonceUsed(used.cache, request.user, request.nonce)
           /\ ChainUntouched

\* POST /submit-authorization going on to the submission whatever
\* validateNonceAndExpiry returned.
SubmitAuthorizationResume_unchecked ==
    \E i \in DOMAIN requests :
        LET request == requests[i]
            used == isNonceUsed_resolved(used_nonces, request.user, request.nonce,
                                         request.on_chain)
        IN /\ request.route = "submit-authorization"
           /\ request.pc = "answered"
           /\ requests' = [requests EXCEPT ![i].pc = "submit"]
           /\ used_nonces' = markNonceUsed(used.cache, request.user, request.nonce)
           /\ ChainUntouched

\* POST /submit-authorization from the result of validateNonceAndExpiry to
\* the submission.
SubmitAuthorizationResume ==
    \E i \in DOMAIN requests :
        LET request == requests[i]
            used == isNonceUsed_resolved(used_nonces, request.user, request.nonce,
                                         request.on_chain)
            validation == [valid |-> ~used.result,
                           reason |-> IF used.result THEN NonceAlreadyUsed ELSE NoReason]
        IN /\ request.route = "submit-authorization"
           /\ request.pc = "answered"
           /\ IF ~validation.valid
              THEN /\ requests' = [requests EXCEPT
                          ![i] = Respond(request, 400, validation.reason)]
                   /\ used_nonces' = used.cache
              ELSE /\ requests' = [requests EXCEPT ![i].pc = "submit"]
                   /\ used_nonces' = markNonceUsed(used.cache, request.user, request.nonce)
           /\ ChainUntouched

\* POST /place: the facilitator's place_order_for_user transaction and the
\* response.
PlaceSubmit ==
    \E i \in DOMAIN requests :
        LET request == requests[i]
            args == [user |-> request.user, price |-> TraderOrder.price,
                     quantity |-> TraderOrder.quantity, side |-> TraderOrder.side]
        IN /\ request.route = "place"
           /\ request.pc = "submit"
           /\ Execute("place_order_for_user", args,
                      place_order_for_user(Storage, now, Facilitator, Admin, request.user,
                          TraderOrder.price, TraderOrder.quantity, TraderOrder.side))
           /\ requests' = [requests EXCEPT
                  ![i] = Respond(request, IF tx'.err = OK THEN 200 ELSE 500, NoReason)]
           /\ UNCHANGED used_nonces

\* POST /submit-authorization: the sponsored transfer_with_authorization
\* transaction and the response.
SubmitAuthorizationSubmit ==
    \E i \in DOMAIN requests :
        LET request == requests[i]
            message == construct_authorization_message(request.user,
                           TraderPayment.recipient, TraderPayment.amount, request.nonce,
                           request.expiry)
            signature == [key |-> request.user, msg |-> message, size_ok |-> TRUE]
            args == [facilitator |-> Facilitator, sender |-> request.user,
                     recipient |-> TraderPayment.recipient,
                     amount |-> TraderPayment.amount, nonce |-> request.nonce,
                     expiry |-> request.expiry, signature |-> signature,
                     public_key |-> request.user]
        IN /\ request.route = "submit-authorization"
           /\ request.pc = "submit"
           /\ Execute("transfer_with_authorization", args,
                      transfer_with_authorization(Storage, now, Facilitator, request.user,
                          TraderPayment.recipient, TraderPayment.amount, request.nonce,
                          request.expiry, signature, request.user))
           /\ requests' = [requests EXCEPT
                  ![i] = Respond(request, IF tx'.err = OK THEN 200 ELSE 500, NoReason)]
           /\ UNCHANGED used_nonces

\* The relayer serving the trader's payment requests, over a chain on which
\* the trader also pays directly.
NextPaymentRoute ==
    \/ Tick
    \/ Ack
    \/ TraderInitializeNonceStore
    \/ TraderTransfer
    \/ PostSubmitAuthorization
    \/ NonceLookup
    \/ SubmitAuthorizationResume
    \/ SubmitAuthorizationSubmit

SpecPaymentRoute == Init /\ [][NextPaymentRoute]_vars

\* The relayer serving the trader's order requests, over a chain on which the
\* trader is funded and also pays directly.
NextOrderRoute ==
    \/ Tick
    \/ Ack
    \/ TraderInitializeNonceStore
    \/ TraderTransfer
    \/ InitializeVault({"u1"})
    \/ TraderCreditDeposit
    \/ InitializeOrderBook
    \/ PostPlace
    \/ NonceLookup
    \/ PlaceResume
    \/ PlaceSubmit

SpecOrderRoute == Init /\ [][NextOrderRoute]_vars

Next ==
    NextPay \/ NextVault \/ NextBook \/ NextLock \/ NextFrame \/ NextArith \/ NextEvents
      \/ NextPaymentRoute \/ NextOrderRoute

Spec == Init /\ [][Next]_vars

\* ------------------------------------------------------------- claims
\* The part of the storage a transaction can write.
ledger == <<NonceStore, CoinStore, Vault, OrderBook, payment_log>>

\* The authorization presented by a transfer_with_authorization call is a
\* well-formed signature over the call's payload under the presented key.
ValidAuthorization(a) ==
    /\ a.public_key # ShortKey
    /\ a.signature.size_ok
    /\ signature_verify_strict(a.signature, a.public_key,
           construct_authorization_message(a.sender, a.recipient, a.amount, a.nonce,
                                           a.expiry))

\* C1: for every (sender, nonce) at most one transfer_with_authorization ever
\* succeeds: no (sender, nonce) has two PaymentExecutedEvents in the log.
C1_OneTransferPerNonce ==
    \A p \in DOMAIN payment_log : payment_log[p] <= 1

\* A valid, unexpired authorization is replayed after it was executed, and
\* the replay is rejected.
C1_Witness ==
    /\ tx.op = "transfer_with_authorization"
    /\ tx.err = "E_NONCE_ALREADY_USED"
    /\ ValidAuthorization(tx.args)
    /\ payment_log[<<tx.args.sender, tx.args.nonce>>] = 1

\* C2: for every user, available_balance + locked_balance does not exceed
\* the value backing the user's shares,
\* floor(shares * total_deposits / total_shares).
C2_BalanceBackedByShares ==
    \A v \in DOMAIN Vault : \A u \in Users :
        get_user_total_balance(Storage, v, u)
            <= calculate_share_value(Storage, v, get_user_shares(Storage, v, u))

\* C7: a successful transfer_with_authorization takes amount from the
\* sender's coin balance, adds it to the recipient's, and changes no other
\* coin balance.
C7_SenderPaysRecipient ==
    [][(tx'.op = "transfer_with_authorization" /\ tx'.err = OK) =>
        \A a \in Addr :
            CoinStore'[a] = CoinStore[a]
                - (IF a = tx'.args.sender THEN tx'.args.amount ELSE 0)
                + (IF a = tx'.args.recipient THEN tx'.args.amount ELSE 0)]_vars

\* C8 as claimed: a transfer_with_authorization that passed its four checks
\* and whose coin transfer failed leaves the nonce marked used.
C8_FailedTransferBurnsNonce ==
    (tx.op = "transfer_with_authorization" /\ tx.err = "EINSUFFICIENT_BALANCE")
        => is_nonce_used(Storage, tx.args.sender, tx.args.nonce)

\* C8 amended: a transfer_with_authorization that passed its four checks and
\* whose coin transfer failed leaves the nonce unused, and the same call is
\* not rejected as a replay.
C8_FailedTransferKeepsNonce ==
    (tx.op = "transfer_with_authorization" /\ tx.err = "EINSUFFICIENT_BALANCE")
        => /\ ~is_nonce_used(Storage, tx.args.sender, tx.args.nonce)
           /\ transfer_with_authorization(Storage, now, tx.args.facilitator,
                  tx.args.sender, tx.args.recipient, tx.args.amount, tx.args.nonce,
                  tx.args.expiry, tx.args.signature, tx.args.public_key).err
                # "E_NONCE_ALREADY_USED"

\* A validly authorized, unexpired transfer failed for lack of coins.
C8_Witness ==
    /\ tx.op = "transfer_with_authorization"
    /\ tx.err = "EINSUFFICIENT_BALANCE"
    /\ ValidAuthorization(tx.args)
    /\ tx.args.sender \in DOMAIN NonceStore
    /\ CoinStore[tx.args.facilitator] < tx.args.amount

\* C9 as claimed: a transfer_with_authorization for a (sender, nonce) already
\* marked used fails with E_NONCE_ALREADY_USED whatever else it carries.
C9_UsedNonceAlwaysAlreadyUsed ==
    [][(/\ tx'.op = "transfer_with_authorization"
        /\ is_nonce_used(Storage, tx'.args.sender, tx'.args.nonce))
        => tx'.err = "E_NONCE_ALREADY_USED"]_vars

\* C9 amended: such a call fails and changes nothing; the code is
\* E_AUTHORIZATION_EXPIRED when now > expiry and E_NONCE_ALREADY_USED
\* otherwise, whatever the recipient, amount, signature, key and facilitator.
C9_UsedNonceFails ==
    [][(/\ tx'.op = "transfer_with_authorization"
        /\ is_nonce_used(Storage, tx'.args.sender, tx'.args.nonce))
        => /\ tx'.err = IF now > tx'.args.expiry THEN "E_AUTHORIZATION_EXPIRED"
                        ELSE "E_NONCE_ALREADY_USED"
           /\ tx'.events = <<>>
           /\ UNCHANGED ledger]_vars

\* A used nonce is presented again with an authorization that is not valid
\* for the payload, and the call is rejected as a replay.
C9_Witness ==
    /\ tx.op = "transfer_with_authorization"
    /\ tx.err = "E_NONCE_ALREADY_USED"
    /\ ~ValidAuthorization(tx.args)
    /\ payment_log[<<tx.args.sender, tx.args.nonce>>] = 1

\* C10: a transfer_with_authorization with expiry < now fails with
\* E_AUTHORIZATION_EXPIRED and changes nothing; one with now <= expiry does
\* not fail with E_AUTHORIZATION_EXPIRED.
C10_ExpiredFails ==
    [][tx'.op = "transfer_with_authorization" =>
        /\ tx'.args.expiry < now =>
             /\ tx'.err = "E_AUTHORIZATION_EXPIRED"
             /\ tx'.events = <<>>
             /\ UNCHANGED ledger
        /\ now <= tx'.args.expiry => tx'.err # "E_AUTHORIZATION_EXPIRED"]_vars

\* An expired call was rejected although its signature is valid, the
\* sender's nonce store exists and the nonce is unused.
C10_Witness ==
    /\ tx.op = "transfer_with_authorization"
    /\ tx.err = "E_AUTHORIZATION_EXPIRED"
    /\ tx.args.expiry < now
    /\ ValidAuthorization(tx.args)
    /\ tx.args.sender \in DOMAIN NonceStore
    /\ ~is_nonce_used(Storage, tx.args.sender, tx.args.nonce)

\* The order book and the vault the order transactions of the model address.
Book == OrderBook[Admin]

LockAmount(price, quantity, side) ==
    IF side = ORDER_SIDE_BID THEN price * quantity ELSE quantity

\* C3: every order has filled_quantity <= quantity, and a fill_order whose
\* fill_quantity exceeds the order's remaining quantity fails and changes
\* neither the order nor any balance.
C3_FilledWithinQuantity ==
    [][/\ \A b \in DOMAIN OrderBook' : \A id \in DOMAIN OrderBook'[b].orders :
            OrderBook'[b].orders[id].filled_quantity <= OrderBook'[b].orders[id].quantity
       /\ (/\ tx'.op = "fill_order"
           /\ Admin \in DOMAIN OrderBook
           /\ tx'.args.maker_order_id \in DOMAIN Book.orders
           /\ tx'.args.fill_quantity >
                Book.orders[tx'.args.maker_order_id].quantity
                  - Book.orders[tx'.args.maker_order_id].filled_quantity)
          => /\ tx'.err # OK
             /\ tx'.events = <<>>
             /\ UNCHANGED ledger]_vars

\* A fill larger than the remaining quantity passed both settlements and was
\* stopped by the subtraction quantity - filled_quantity.
C3_Witness ==
    /\ tx.op = "fill_order"
    /\ tx.err = "ARITHMETIC_ERROR"
    /\ tx.args.maker_order_id \in DOMAIN Book.orders
    /\ LET order == Book.orders[tx.args.maker_order_id]
       IN /\ tx.args.fill_quantity > order.quantity - order.filled_quantity
          /\ order.price * tx.args.fill_quantity <= MAX_U64

\* C4: fill_order is all-or-nothing: a fill_order that fails changes nothing,
\* and one that succeeds has applied both settlements.
C4_FillAllOrNothing ==
    [][tx'.op = "fill_order" =>
        IF tx'.err # OK THEN tx'.events = <<>> /\ UNCHANGED ledger
        ELSE LET order == Book.orders[tx'.args.maker_order_id]
                 vault == Vault[Book.vault_address]
                 after == Vault'[Book.vault_address]
                 maker == order.owner
                 taker == tx'.args.taker
                 value == order.price * tx'.args.fill_quantity
                 paid == IF order.side = ORDER_SIDE_BID THEN value
                         ELSE tx'.args.fill_quantity
                 received == IF order.side = ORDER_SIDE_BID THEN tx'.args.fill_quantity
                             ELSE value
             IN \A u \in Users :
                  /\ balance_or_zero(after.user_locked_balance, u)
                       = balance_or_zero(vault.user_locked_balance, u)
                           - (IF u = maker THEN paid ELSE 0)
                           - (IF u = taker THEN received ELSE 0)
                  /\ balance_or_zero(after.user_available_balance, u)
                       = balance_or_zero(vault.user_available_balance, u)
                           + (IF u = taker THEN paid ELSE 0)
                           + (IF u = maker THEN received ELSE 0)]_vars

\* The maker's settlement of a positive amount went through and the taker's
\* then failed for lack of locked balance.
C4_Witness ==
    /\ tx.op = "fill_order"
    /\ tx.err = "E_INSUFFICIENT_LOCKED_BALANCE"
    /\ tx.args.maker_order_id \in DOMAIN Book.orders
    /\ LET order == Book.orders[tx.args.maker_order_id]
           paid == IF order.side = ORDER_SIDE_BID
                   THEN order.price * tx.args.fill_quantity
                   ELSE tx.args.fill_quantity
       IN /\ paid > 0
          /\ tx.args.taker # order.owner
          /\ settle_order(Storage, Book.vault_address, order.owner, tx.args.taker,
                          paid).err = OK

\* C5: a place_order or place_order_for_user whose lock_balance fails (the
\* vault does not exist, or the owner's available balance is below the
\* amount to lock) fails and changes nothing: no order, no order id consumed,
\* no entry in the owner's index, no event, no balance.
C5_PlaceOrderAtomic ==
    [][(/\ tx'.op \in {"place_order", "place_order_for_user"}
        /\ Admin \in DOMAIN OrderBook
        /\ tx'.args.price > 0
        /\ tx'.args.quantity > 0
        /\ LockAmount(tx'.args.price, tx'.args.quantity, tx'.args.side) <= MAX_U64
        /\ \/ Book.vault_address \notin DOMAIN Vault
           \/ balance_or_zero(Vault[Book.vault_address].user_available_balance,
                              tx'.args.user)
                < LockAmount(tx'.args.price, tx'.args.quantity, tx'.args.side))
        => /\ tx'.err \in {"E_VAULT_NOT_INITIALIZED", "E_INSUFFICIENT_AVAILABLE_BALANCE"}
           /\ tx'.events = <<>>
           /\ UNCHANGED ledger]_vars

\* An order of a user without balance entries was refused: lock_balance had
\* added the entries before it found the balance too low.
C5_Witness ==
    /\ tx.op = "place_order"
    /\ tx.err = "E_INSUFFICIENT_AVAILABLE_BALANCE"
    /\ tx.args.user \notin DOMAIN Vault[Book.vault_address].user_available_balance

TerminalStatus == {ORDER_STATUS_FILLED, ORDER_STATUS_CANCELLED}

\* Orders are never removed and their status moves only from Open or
\* PartiallyFilled to PartiallyFilled, Filled or Cancelled.
StatusMovesForward ==
    \A b \in DOMAIN OrderBook : \A id \in DOMAIN OrderBook[b].orders :
        /\ b \in DOMAIN OrderBook'
        /\ id \in DOMAIN OrderBook'[b].orders
        /\ \/ OrderBook'[b].orders[id].status = OrderBook[b].orders[id].status
           \/ /\ OrderBook[b].orders[id].status \notin TerminalStatus
              /\ OrderBook'[b].orders[id].status \in
                    {ORDER_STATUS_PARTIALLY_FILLED, ORDER_STATUS_FILLED,
                     ORDER_STATUS_CANCELLED}

\* The transaction of this step is a cancel_order or fill_order on an order
\* that is Filled or Cancelled.
OnTerminalOrder ==
    /\ tx'.op \in {"cancel_order", "fill_order"}
    /\ Admin \in DOMAIN OrderBook
    /\ LET id == IF tx'.op = "cancel_order" THEN tx'.args.order_id
                 ELSE tx'.args.maker_order_id
       IN id \in DOMAIN Book.orders /\ Book.orders[id].status \in TerminalStatus

\* C6 as claimed: the status moves only forward, and every cancel_order and
\* fill_order on a Filled or Cancelled order fails with the invalid-state
\* code (E_INVALID_ORDER_ID) and changes nothing.
C6_TerminalAlwaysInvalidState ==
    [][/\ StatusMovesForward
       /\ OnTerminalOrder =>
            /\ tx'.err = "E_INVALID_ORDER_ID"
            /\ tx'.events = <<>>
            /\ UNCHANGED ledger]_vars

\* C6 amended: the status moves only forward, and every cancel_order and
\* fill_order on a Filled or Cancelled order fails and changes nothing: with
\* E_UNAUTHORIZED for a cancel_order by an account that is not the owner,
\* with the invalid-state code otherwise.
C6_TerminalStaysTerminal ==
    [][/\ StatusMovesForward
       /\ OnTerminalOrder =>
            /\ tx'.err =
                 IF /\ tx'.op = "cancel_order"
                    /\ Book.orders[tx'.args.order_id].owner # tx'.args.caller
                 THEN "E_UNAUTHORIZED" ELSE "E_INVALID_ORDER_ID"
            /\ tx'.events = <<>>
            /\ UNCHANGED ledger]_vars

\* The owner's cancel_order on a Filled order was refused.
C6_Witness ==
    /\ tx.op = "cancel_order"
    /\ tx.err = "E_INVALID_ORDER_ID"
    /\ tx.args.order_id \in DOMAIN Book.orders
    /\ Book.orders[tx.args.order_id].status = ORDER_STATUS_FILLED
    /\ Book.orders[tx.args.order_id].owner = tx.args.caller

\* The four precondition failures of the transfer_with_authorization of this
\* step, looked up in the storage before it.
Expired == now > tx'.args.expiry
NoStore == tx'.args.sender \notin DOMAIN NonceStore
NonceUsed == is_nonce_used(Storage, tx'.args.sender, tx'.args.nonce)
BadSignature == ~ValidAuthorization(tx'.args)

PreconditionErrors ==
    {"E_AUTHORIZATION_EXPIRED", "E_NONCE_STORE_NOT_INITIALIZED", "E_NONCE_ALREADY_USED",
     "E_INVALID_SIGNATURE", "E_WRONG_PUBKEY_SIZE", "E_WRONG_SIGNATURE_SIZE"}

\* C11 as claimed: the error of transfer_with_authorization is the first
\* failing precondition in the order Expired, NotInitialized, AlreadyUsed,
\* InvalidSignature, and such a failure changes nothing.
C11_FirstFailureOfFour ==
    [][tx'.op = "transfer_with_authorization" =>
        /\ (Expired \/ NoStore \/ NonceUsed \/ BadSignature) =>
             /\ tx'.err = IF Expired THEN "E_AUTHORIZATION_EXPIRED"
                          ELSE IF NoStore THEN "E_NONCE_STORE_NOT_INITIALIZED"
                          ELSE IF NonceUsed THEN "E_NONCE_ALREADY_USED"
                          ELSE "E_INVALID_SIGNATURE"
             /\ tx'.events = <<>>
             /\ UNCHANGED ledger
        /\ ~(Expired \/ NoStore \/ NonceUsed \/ BadSignature) =>
             tx'.err \notin PreconditionErrors]_vars

\* C11 amended: as claimed, except that a signature check failing on the
\* length of the public key or of the signature reports the Ed25519
\* library's size error (public key first) instead of InvalidSignature.
C11_FirstFailureInOrder ==
    [][tx'.op = "transfer_with_authorization" =>
        /\ (Expired \/ NoStore \/ NonceUsed \/ BadSignature) =>
             /\ tx'.err = IF Expired THEN "E_AUTHORIZATION_EXPIRED"
                          ELSE IF NoStore THEN "E_NONCE_STORE_NOT_INITIALIZED"
                          ELSE IF NonceUsed THEN "E_NONCE_ALREADY_USED"
                          ELSE IF tx'.args.public_key = ShortKey THEN "E_WRONG_PUBKEY_SIZE"
                          ELSE IF ~tx'.args.signature.size_ok THEN "E_WRONG_SIGNATURE_SIZE"
                          ELSE "E_INVALID_SIGNATURE"
             /\ tx'.events = <<>>
             /\ UNCHANGED ledger
        /\ ~(Expired \/ NoStore \/ NonceUsed \/ BadSignature) =>
             tx'.err \notin PreconditionErrors]_vars

\* A call failing two checks at once, a used nonce and a signature by another
\* key, was reported as a replay.
C11_Witness ==
    /\ tx.op = "transfer_with_authorization"
    /\ tx.err = "E_NONCE_ALREADY_USED"
    /\ tx.args.signature.key # tx.args.public_key
    /\ tx.args.expiry >= now
    /\ payment_log[<<tx.args.sender, tx.args.nonce>>] = 1

\* C12: a nonce that is used stays used in every later state, and an
\* initialize_nonce_store for an account that has a store succeeds and leaves
\* the used nonces as they were.
C12_NoncesStayUsed ==
    [][/\ \A user \in Addr, nonce \in 1..MaxNonce :
            is_nonce_used(Storage, user, nonce) => is_nonce_used(Storage', user, nonce)
       /\ (/\ tx'.op = "initialize_nonce_store"
           /\ tx'.args.account \in DOMAIN NonceStore)
          => tx'.err = OK /\ NonceStore' = NonceStore]_vars

\* initialize_nonce_store ran for an account whose store holds a used nonce.
C12_Witness ==
    /\ tx.op = "initialize_nonce_store"
    /\ tx.err = OK
    /\ tx.args.account \in DOMAIN NonceStore
    /\ NonceStore[tx.args.account] # {}

\* C13: in every vault, total_shares = 0 exactly when total_deposits = 0.
C13_SharesZeroIffDepositsZero ==
    \A v \in DOMAIN Vault :
        (Vault[v].total_shares = 0) <=> (Vault[v].total_deposits = 0)

\* A withdraw burned the last shares of a vault that had deposits.
C13_Witness ==
    /\ tx.op = "withdraw"
    /\ tx.err = OK
    /\ tx.events[1].amount > 0
    /\ Vault[tx.args.vault_addr].total_shares = 0

RECURSIVE SumOf(_, _)
SumOf(table, keys) ==
    IF keys = {} THEN 0
    ELSE LET k == CHOOSE x \in keys : TRUE
         IN table[k] + SumOf(table, keys \ {k})

\* C14: after every step total_shares is the sum of the users' shares, and a
\* withdraw of shares <= the user's shares finds total_shares >= shares and
\* leaves total_shares at or above the user's remaining shares.
C14_TotalSharesIsSum ==
    [][/\ \A v \in DOMAIN Vault' :
            Vault'[v].total_shares
                = SumOf(Vault'[v].user_shares, DOMAIN Vault'[v].user_shares)
       /\ (/\ tx'.op = "withdraw"
           /\ tx'.args.vault_addr \in DOMAIN Vault
           /\ tx'.args.user \in DOMAIN Vault[tx'.args.vault_addr].user_shares
           /\ tx'.args.shares > 0
           /\ tx'.args.shares <= Vault[tx'.args.vault_addr].user_shares[tx'.args.user])
          => LET vault == Vault[tx'.args.vault_addr]
                 remaining == vault.user_shares[tx'.args.user] - tx'.args.shares
             IN /\ vault.total_shares >= tx'.args.shares
                /\ tx'.err = OK =>
                     /\ Vault'[tx'.args.vault_addr].user_shares[tx'.args.user] = remaining
                     /\ Vault'[tx'.args.vault_addr].total_shares >= remaining]_vars

\* A user withdrew part of their shares from a vault another user holds
\* shares of.
C14_Witness ==
    /\ tx.op = "withdraw"
    /\ tx.err = OK
    /\ Vault[tx.args.vault_addr].user_shares[tx.args.user] > 0
    /\ Vault[tx.args.vault_addr].total_shares
         > Vault[tx.args.vault_addr].user_shares[tx.args.user]

C16_SameAccounting ==
    [][/\ tx'.op = "deposit" =>
            \A facilitator \in Addr :
                LET credited == execute_transaction(Storage,
                        credit_deposit(Storage, now, facilitator, tx'.args.vault_addr,
                                       tx'.args.user, tx'.args.amount))
                    coins == coin_transfer(Storage, tx'.args.user, tx'.args.vault_addr,
                                           tx'.args.amount)
                IN /\ credited.CoinStore = CoinStore
                   /\ tx'.err = OK =>
                        /\ credited.err = OK
                        /\ credited.Vault = Vault'
                        /\ credited.events = tx'.events
                        /\ CoinStore' = coins.CoinStore
                        /\ CoinStore'[tx'.args.user]
                             = CoinStore[tx'.args.user] - tx'.args.amount
                   /\ tx'.err # OK =>
                        \/ credited.err = tx'.err
                        \/ credited.err = OK /\ coins.err = tx'.err
       /\ tx'.op = "credit_deposit" =>
            LET deposited == execute_transaction(Storage,
                    deposit(Storage, now, tx'.args.user, tx'.args.vault_addr,
                            tx'.args.amount))
                coins == coin_transfer(Storage, tx'.args.user, tx'.args.vault_addr,
                                       tx'.args.amount)
            IN /\ CoinStore' = CoinStore
               /\ tx'.err # OK => deposited.err = tx'.err
               /\ tx'.err = OK =>
                    IF coins.err # OK THEN deposited.err = coins.err
                    ELSE /\ deposited.err = OK
                         /\ deposited.Vault = Vault'
                         /\ deposited.events = tx'.events]_vars

\* A deposit into a vault that already held deposits went through.
C16_Witness ==
    /\ tx.op = "deposit"
    /\ tx.err = OK
    /\ Vault[tx.args.vault_addr].total_deposits > tx.args.amount

\* The withdraw of this step, on an existing vault, did what a withdrawal
\* does: total_deposits is down by floor(shares * total_deposits /
\* total_shares), total_shares and the user's shares are down by shares, one
\* WithdrawEvent was emitted, and nothing else changed.
Withdrawn ==
    LET vault == Vault[tx'.args.vault_addr]
        user == tx'.args.user
        shares == tx'.args.shares
        amount == (shares * vault.total_deposits) \div vault.total_shares
    IN /\ tx'.err = OK
       /\ tx'.events = <<WithdrawEvent(user, amount, shares, now)>>
       /\ Vault' = [Vault EXCEPT ![tx'.args.vault_addr] =
                      [vault EXCEPT !.total_deposits = @ - amount,
                                    !.total_shares = @ - shares,
                                    !.user_shares[user] = @ - shares]]
       /\ UNCHANGED <<NonceStore, CoinStore, OrderBook, payment_log>>

Rejected(code) == tx'.err = code /\ tx'.events = <<>> /\ UNCHANGED ledger

\* C17 as claimed: withdraw fails with E_INVALID_AMOUNT for shares = 0 and
\* with E_INSUFFICIENT_SHARES for a user holding fewer shares or none,
\* changing nothing, and otherwise withdraws.
C17_WithdrawOrRejects ==
    [][(tx'.op = "withdraw" /\ tx'.args.vault_addr \in DOMAIN Vault) =>
        LET vault == Vault[tx'.args.vault_addr] IN
        IF tx'.args.shares = 0 THEN Rejected("E_INVALID_AMOUNT")
        ELSE IF \/ tx'.args.user \notin DOMAIN vault.user_shares
                \/ vault.user_shares[tx'.args.user] < tx'.args.shares
        THEN Rejected("E_INSUFFICIENT_SHARES")
        ELSE Withdrawn]_vars

\* C17 amended: as claimed, except that a withdraw passing both checks whose
\* product shares * total_deposits does not fit in a u64 aborts with an
\* arithmetic error and changes nothing.
C17_WithdrawUnlessOverflow ==
    [][(tx'.op = "withdraw" /\ tx'.args.vault_addr \in DOMAIN Vault) =>
        LET vault == Vault[tx'.args.vault_addr] IN
        IF tx'.args.shares = 0 THEN Rejected("E_INVALID_AMOUNT")
        ELSE IF \/ tx'.args.user \notin DOMAIN vault.user_shares
                \/ vault.user_shares[tx'.args.user] < tx'.args.shares
        THEN Rejected("E_INSUFFICIENT_SHARES")
        ELSE IF tx'.args.shares * vault.total_deposits > MAX_U64
        THEN Rejected("ARITHMETIC_ERROR")
        ELSE Withdrawn]_vars

\* A user holding the shares asked for was refused because the product
\* overflowed.
C17_Witness ==
    /\ tx.op = "withdraw"
    /\ tx.err = "ARITHMETIC_ERROR"
    /\ tx.args.user \in DOMAIN Vault[tx.args.vault_addr].user_shares
    /\ Vault[tx.args.vault_addr].user_shares[tx.args.user] >= tx.args.shares

\* What the accounts of a vault hold and the vault's totals, as the views
\* report them.
Holdings(st, vault_addr) ==
    [available |-> [w \in Addr |-> get_user_available_balance(st, vault_addr, w)],
     locked |-> [w \in Addr |-> get_user_locked_balance(st, vault_addr, w)],
     shares |-> [w \in Addr |-> get_user_shares(st, vault_addr, w)],
     total_deposits |-> st.Vault[vault_addr].total_deposits,
     total_shares |-> st.Vault[vault_addr].total_shares,
     reference_trader |-> st.Vault[vault_addr].reference_trader,
     is_active |-> st.Vault[vault_addr].is_active]

\* C18: an unlock_balance(user, amount) directly after a successful
\* lock_balance(user, amount) succeeds and leaves every balance, and the rest
\* of the vault, as it was before the lock.
C18_UnlockUndoesLock ==
    [][(tx'.op = "lock_balance" /\ tx'.err = OK) =>
        LET unlocked == unlock_balance(Storage', tx'.args.vault_addr, tx'.args.user,
                                       tx'.args.amount)
        IN /\ unlocked.err = OK
           /\ Holdings(unlocked, tx'.args.vault_addr)
                = Holdings(Storage, tx'.args.vault_addr)
           /\ DOMAIN unlocked.Vault = DOMAIN Vault
           /\ unlocked.NonceStore = NonceStore
           /\ unlocked.CoinStore = CoinStore
           /\ unlocked.OrderBook = OrderBook]_vars

\* A positive amount was locked for a user who already had a locked balance.
C18_Witness ==
    /\ tx.op = "lock_balance"
    /\ tx.err = OK
    /\ tx.args.amount > 0
    /\ Vault[tx.args.vault_addr].user_locked_balance[tx.args.user] > tx.args.amount

\* The account whose locked balance an unlock_balance or settle_order takes
\* the amount from, and whether the vault has a locked-balance entry for it
\* when the code reads it.
SourceUser == IF tx'.op = "settle_order" THEN tx'.args.from ELSE tx'.args.user

SourceHasEntry ==
    \/ SourceUser \in DOMAIN Vault[tx'.args.vault_addr].user_locked_balance
    \/ tx'.op = "settle_order" /\ tx'.args.from = tx'.args.to

\* C19 as claimed: on an existing vault lock_balance fails with
\* E_INSUFFICIENT_AVAILABLE_BALANCE exactly when the user's available balance
\* (0 without an entry) is below the amount, unlock_balance and settle_order
\* fail with E_INSUFFICIENT_LOCKED_BALANCE exactly when the source user's
\* locked balance (0 without an entry) is below the amount, and such a
\* failure changes nothing.
C19_InsufficientExactly ==
    [][/\ (tx'.op = "lock_balance" /\ tx'.args.vault_addr \in DOMAIN Vault) =>
            /\ tx'.err = "E_INSUFFICIENT_AVAILABLE_BALANCE"
                 <=> balance_or_zero(Vault[tx'.args.vault_addr].user_available_balance,
                                     tx'.args.user) < tx'.args.amount
            /\ tx'.err = "E_INSUFFICIENT_AVAILABLE_BALANCE" => Rejected(tx'.err)
       /\ (/\ tx'.op \in {"unlock_balance", "settle_order"}
           /\ tx'.args.vault_addr \in DOMAIN Vault) =>
            /\ tx'.err = "E_INSUFFICIENT_LOCKED_BALANCE"
                 <=> balance_or_zero(Vault[tx'.args.vault_addr].user_locked_balance,
                                     SourceUser) < tx'.args.amount
            /\ tx'.err = "E_INSUFFICIENT_LOCKED_BALANCE" => Rejected(tx'.err)]_vars

\* What the code does in the cases of C19: as claimed for a source user with
\* a balance entry; for a source user without one, unlock_balance and
\* settle_order (to another account) fail with the table's not-found error
\* whatever the amount, and change nothing.
C19_InsufficientOrNoEntry ==
    [][/\ (tx'.op = "lock_balance" /\ tx'.args.vault_addr \in DOMAIN Vault) =>
            /\ tx'.err = "E_INSUFFICIENT_AVAILABLE_BALANCE"
                 <=> balance_or_zero(Vault[tx'.args.vault_addr].user_available_balance,
                                     tx'.args.user) < tx'.args.amount
            /\ tx'.err = "E_INSUFFICIENT_AVAILABLE_BALANCE" => Rejected(tx'.err)
       /\ (/\ tx'.op \in {"unlock_balance", "settle_order"}
           /\ tx'.args.vault_addr \in DOMAIN Vault) =>
            /\ tx'.err = "TABLE_ENOT_FOUND" <=> ~SourceHasEntry
            /\ tx'.err = "E_INSUFFICIENT_LOCKED_BALANCE"
                 <=> /\ SourceHasEntry
                     /\ balance_or_zero(Vault[tx'.args.vault_addr].user_locked_balance,
                                        SourceUser) < tx'.args.amount
            /\ tx'.err \in {"TABLE_ENOT_FOUND", "E_INSUFFICIENT_LOCKED_BALANCE"}
                 => Rejected(tx'.err)]_vars

\* A settle_order of a positive amount from an account without a balance
\* entry was refused.
C19_Witness ==
    /\ tx.op = "settle_order"
    /\ tx.err = "TABLE_ENOT_FOUND"
    /\ tx.args.amount > 0
    /\ tx.args.from \notin DOMAIN Vault[tx.args.vault_addr].user_locked_balance

\* C20: a successful settle_order(from, to, amount) takes amount from from's
\* locked balance and adds it to to's available balance, also when from = to,
\* and changes no other balance, no shares and no total, so that the sum of
\* all balances stays the same.
C20_SettleMovesLockedToAvailable ==
    [][(tx'.op = "settle_order" /\ tx'.err = OK) =>
        LET before == Holdings(Storage, tx'.args.vault_addr)
            after == Holdings(Storage', tx'.args.vault_addr)
        IN /\ after.locked = [before.locked EXCEPT ![tx'.args.from] = @ - tx'.args.amount]
           /\ after.available
                = [before.available EXCEPT ![tx'.args.to] = @ + tx'.args.amount]
           /\ after.shares = before.shares
           /\ after.total_deposits = before.total_deposits
           /\ after.total_shares = before.total_shares
           /\ SumOf(after.available, Addr) + SumOf(after.locked, Addr)
                = SumOf(before.available, Addr) + SumOf(before.locked, Addr)
           /\ UNCHANGED <<NonceStore, CoinStore, OrderBook, payment_log>>]_vars

\* An account settled a positive amount with itself.
C20_Witness ==
    /\ tx.op = "settle_order"
    /\ tx.err = OK
    /\ tx.args.amount > 0
    /\ tx.args.from = tx.args.to

LockedBalances(st, vault_addr) ==
    [w \in Addr |-> get_user_locked_balance(st, vault_addr, w)]

\* C21: deposit, credit_deposit, withdraw, record_vault_trade and
\* initialize_vault leave every user's locked balance as it was, and so do
\* initialize_nonce_store and a transfer_with_authorization of the user run
\* on the storage the user's lock_balance has left.
C21_LockedBalanceFrame ==
    [][/\ tx'.op \in {"deposit", "credit_deposit", "withdraw", "record_vault_trade",
                      "initialize_vault"} =>
            \A v \in DOMAIN Vault :
                /\ v \in DOMAIN Vault'
                /\ LockedBalances(Storage', v) = LockedBalances(Storage, v)
       /\ (tx'.op = "lock_balance" /\ tx'.err = OK) =>
            \A amount \in 1..MaxAmount :
            LET sender == tx'.args.user
                opened == initialize_nonce_store(Storage', sender)
                paid == transfer_with_authorization(opened, now, Facilitator, sender,
                            Admin, amount, 1, MaxTime,
                            [key |-> sender, size_ok |-> TRUE,
                             msg |-> construct_authorization_message(sender, Admin,
                                         amount, 1, MaxTime)],
                            sender)
            IN /\ opened.Vault = Vault'
               /\ paid.Vault = Vault'
               /\ paid.err \in {OK, "EINSUFFICIENT_BALANCE", "ARITHMETIC_ERROR"}]_vars

\* A user with a locked balance withdrew shares.
C21_Witness ==
    /\ tx.op = "withdraw"
    /\ tx.err = OK
    /\ get_user_locked_balance(Storage, tx.args.vault_addr, tx.args.user) > 0

\* The holdings of the book's vault with `amount` moved between one account's
\* available and locked balance.
Moved(h, user, from, to, amount) ==
    [h EXCEPT ![from][user] = @ - amount, ![to][user] = @ + amount]

\* C22: a successful place_order or place_order_for_user has price > 0 and
\* quantity > 0 and locks price * quantity for a Bid and quantity for an Ask:
\* the owner's available balance drops and locked balance rises by that
\* amount, nothing else in the vault changes, and the book gains exactly one
\* order, Open, unfilled, with the given owner, price, quantity and side. A
\* placement with price 0 or quantity 0 fails and changes nothing.
C22_PlacementLocksAndRecords ==
    [][tx'.op \in {"place_order", "place_order_for_user"} =>
        LET a == tx'.args
            amount == LockAmount(a.price, a.quantity, a.side)
        IN /\ (a.price = 0 \/ a.quantity = 0) =>
                tx'.err # OK /\ tx'.events = <<>> /\ UNCHANGED ledger
           /\ tx'.err = OK =>
                /\ a.price > 0 /\ a.quantity > 0
                /\ Holdings(Storage', Book.vault_address) =
                     Moved(Holdings(Storage, Book.vault_address), a.user,
                           "available", "locked", amount)
                /\ get_user_available_balance(Storage, Book.vault_address, a.user) >= amount
                /\ Book.next_order_id \notin DOMAIN Book.orders
                /\ OrderBook'[Admin].orders =
                     (Book.next_order_id :>
                        Order(Book.next_order_id, a.user, a.price, a.quantity, 0,
                              a.side, ORDER_STATUS_OPEN, now)) @@ Book.orders
                /\ UNCHANGED <<NonceStore, CoinStore, payment_log>>]_vars

\* A Bid placed for a user at a price above 1 has locked price * quantity.
C22_Witness ==
    /\ tx.op = "place_order_for_user"
    /\ tx.err = OK
    /\ tx.args.side = ORDER_SIDE_BID
    /\ tx.args.price = MaxPrice
    /\ get_user_locked_balance(Storage, Book.vault_address, tx.args.user) = MaxPrice * tx.args.quantity

\* C23: a successful cancel_order finds the order Open or PartiallyFilled,
\* moves (quantity - filled_quantity) * price for a Bid, and
\* quantity - filled_quantity for an Ask, from the owner's locked balance to
\* the owner's available balance, changes nothing else in the vault and sets
\* the order's status to Cancelled; and a cancel_order by the owner directly
\* after a successful placement succeeds and leaves the vault's holdings as
\* they were before the placement.
C23_CancelUnlocksRemainder ==
    [][/\ (tx'.op = "cancel_order" /\ tx'.err = OK) =>
            LET id == tx'.args.order_id
                order == Book.orders[id]
                amount == LockAmount(order.price, order.quantity - order.filled_quantity, order.side)
            IN /\ order.status \in {ORDER_STATUS_OPEN, ORDER_STATUS_PARTIALLY_FILLED}
               /\ order.quantity >= order.filled_quantity
               /\ Holdings(Storage', Book.vault_address) =
                    Moved(Holdings(Storage, Book.vault_address), order.owner,
                          "locked", "available", amount)
               /\ OrderBook' = [OrderBook EXCEPT
                                  ![Admin].orders[id].status = ORDER_STATUS_CANCELLED]
       /\ (tx'.op \in {"place_order", "place_order_for_user"} /\ tx'.err = OK) =>
            LET id == Book.next_order_id
                cancelled == cancel_order(Storage', now, tx'.args.user, Admin, id)
            IN /\ cancelled.err = OK
               /\ cancelled.OrderBook[Admin].orders[id].status = ORDER_STATUS_CANCELLED
               /\ Holdings(cancelled, Book.vault_address) =
                    Holdings(Storage, Book.vault_address)]_vars

\* A partially filled Bid has been cancelled.
C23_Witness ==
    /\ tx.op = "cancel_order"
    /\ tx.err = OK
    /\ Book.orders[tx.args.order_id].side = ORDER_SIDE_BID
    /\ Book.orders[tx.args.order_id].filled_quantity > 0
    /\ Book.orders[tx.args.order_id].filled_quantity < Book.orders[tx.args.order_id].quantity

\* C24: on an existing order book, cancel_order with an order id the book
\* does not hold fails with E_ORDER_NOT_FOUND, cancel_order by a caller other
\* than the order's owner fails with E_UNAUTHORIZED, both without changing
\* the order, the book or the vault, so a cancel_order that succeeds was
\* called by the owner of an existing order; and the facilitator's
\* cancel_order of an order it has just placed with place_order_for_user
\* fails with E_UNAUTHORIZED, the order staying as placed.
C24_OnlyOwnerCancels ==
    [][/\ (tx'.op = "cancel_order" /\ Admin \in DOMAIN OrderBook) =>
            LET id == tx'.args.order_id
                caller == tx'.args.caller
            IN /\ id \notin DOMAIN Book.orders => Rejected("E_ORDER_NOT_FOUND")
               /\ (id \in DOMAIN Book.orders /\ caller # Book.orders[id].owner) =>
                    Rejected("E_UNAUTHORIZED")
               /\ tx'.err = OK =>
                    id \in DOMAIN Book.orders /\ caller = Book.orders[id].owner
       /\ (tx'.op = "place_order_for_user" /\ tx'.err = OK) =>
            LET id == Book.next_order_id
                refused == execute_transaction(Storage', cancel_order(Storage', now, Facilitator, Admin, id))
            IN /\ OrderBook'[Admin].orders[id].owner = tx'.args.user
               /\ refused.err = "E_UNAUTHORIZED"
               /\ refused.events = <<>>
               /\ refused.OrderBook = OrderBook' /\ refused.Vault = Vault']_vars

\* The facilitator's cancel_order of a user's open order has been refused.
C24_Witness ==
    /\ tx.op = "cancel_order"
    /\ tx.args.caller = Facilitator
    /\ tx.err = "E_UNAUTHORIZED"
    /\ tx.args.order_id \in DOMAIN Book.orders
    /\ Book.orders[tx.args.order_id].status = ORDER_STATUS_OPEN

\* The holdings of a vault after settle_order(from, to, amount): `amount`
\* leaves `from`'s locked balance and joins `to`'s available balance.
Settled(h, from, to, amount) ==
    [h EXCEPT !.locked[from] = @ - amount, !.available[to] = @ + amount]

\* C25: a successful fill_order(maker_order, taker, f) on a Bid of price p
\* moves p * f from the maker's locked balance to the taker's available
\* balance and f from the taker's locked balance to the maker's available
\* balance; on an Ask it moves f from maker locked to taker available and
\* p * f from taker locked to maker available. Every other balance, the
\* shares and the vault's totals stay as they were, as do the coins.
C25_FillSettlesBothLegs ==
    [][(tx'.op = "fill_order" /\ tx'.err = OK) =>
        LET order == Book.orders[tx'.args.maker_order_id]
            maker == order.owner
            taker == tx'.args.taker
            f == tx'.args.fill_quantity
            before == Holdings(Storage, Book.vault_address)
        IN /\ Holdings(Storage', Book.vault_address) =
                IF order.side = ORDER_SIDE_BID
                THEN Settled(Settled(before, maker, taker, order.price * f), taker, maker, f)
                ELSE Settled(Settled(before, maker, taker, f), taker, maker, order.price * f)
           /\ DOMAIN Vault' = DOMAIN Vault
           /\ UNCHANGED <<NonceStore, CoinStore, payment_log>>]_vars

\* An Ask at a price above 1 has been filled by another account for a
\* positive quantity.
C25_Witness ==
    /\ tx.op = "fill_order"
    /\ tx.err = OK
    /\ tx.args.fill_quantity > 0
    /\ Book.orders[tx.args.maker_order_id].side = ORDER_SIDE_ASK
    /\ Book.orders[tx.args.maker_order_id].price = MaxPrice
    /\ Book.orders[tx.args.maker_order_id].owner # tx.args.taker

\* C26: a successful fill_order raises the order's filled_quantity by exactly
\* fill_quantity, to at most its quantity, changes no other field but the
\* status, and leaves the order Filled if filled_quantity = quantity and
\* PartiallyFilled otherwise; the remaining quantity it reports is
\* quantity - filled_quantity. An order whose filled_quantity was positive
\* before the fill was PartiallyFilled.
C26_FillAdvancesOrder ==
    [][(tx'.op = "fill_order" /\ tx'.err = OK) =>
        LET id == tx'.args.maker_order_id
            order == Book.orders[id]
            after == OrderBook'[Admin].orders[id]
        IN /\ after.filled_quantity = order.filled_quantity + tx'.args.fill_quantity
           /\ after.filled_quantity <= order.quantity
           /\ after.status = IF after.filled_quantity = order.quantity
                             THEN ORDER_STATUS_FILLED
                             ELSE ORDER_STATUS_PARTIALLY_FILLED
           /\ after = [order EXCEPT !.filled_quantity = after.filled_quantity,
                                    !.status = after.status]
           /\ tx'.events[1].remaining_quantity = order.quantity - after.filled_quantity
           /\ order.filled_quantity > 0 => order.status = ORDER_STATUS_PARTIALLY_FILLED
           /\ OrderBook' = [OrderBook EXCEPT ![Admin].orders[id] = after]]_vars

\* The second of two fills of half the quantity has left the order Filled.
C26_Witness ==
    /\ tx.op = "fill_order"
    /\ tx.err = OK
    /\ tx.args.fill_quantity > 0
    /\ Book.orders[tx.args.maker_order_id].status = ORDER_STATUS_FILLED
    /\ Book.orders[tx.args.maker_order_id].quantity = 2 * tx.args.fill_quantity

\* C27: an order book starts with next_order_id = 1 and no order; every
\* successful placement records its order under id = next_order_id and raises
\* next_order_id by one, a failed placement and every other operation leave
\* next_order_id and the set of ids alone, each order keeps its id and owner,
\* and so a book holds exactly the ids 1..next_order_id - 1, each stored
\* under its own id.
C27_OrderIdsConsecutive ==
    [][/\ \A b \in DOMAIN OrderBook' :
            /\ DOMAIN OrderBook'[b].orders = 1..(OrderBook'[b].next_order_id - 1)
            /\ \A id \in DOMAIN OrderBook'[b].orders : OrderBook'[b].orders[id].order_id = id
       /\ \A b \in DOMAIN OrderBook' \ DOMAIN OrderBook :
            OrderBook'[b].next_order_id = 1 /\ DOMAIN OrderBook'[b].orders = {}
       /\ \A b \in DOMAIN OrderBook :
            /\ b \in DOMAIN OrderBook'
            /\ \A id \in DOMAIN OrderBook[b].orders :
                 /\ id \in DOMAIN OrderBook'[b].orders
                 /\ OrderBook'[b].orders[id].owner = OrderBook[b].orders[id].owner
            /\ IF tx'.op \in {"place_order", "place_order_for_user"} /\ tx'.err = OK
               THEN /\ b = Admin
                    /\ tx'.events[1].order_id = OrderBook[b].next_order_id
                    /\ OrderBook'[b].next_order_id = OrderBook[b].next_order_id + 1
                    /\ DOMAIN OrderBook'[b].orders =
                         DOMAIN OrderBook[b].orders \cup {OrderBook[b].next_order_id}
               ELSE /\ OrderBook'[b].next_order_id = OrderBook[b].next_order_id
                    /\ DOMAIN OrderBook'[b].orders = DOMAIN OrderBook[b].orders]_vars

\* With the first order cancelled and still in the book, a placement has
\* received id 2.
C27_Witness ==
    /\ tx.op = "place_order"
    /\ tx.err = OK
    /\ tx.events[1].order_id = 2
    /\ Book.next_order_id = 3
    /\ Book.orders[1].status = ORDER_STATUS_CANCELLED

U64 == 0..MAX_U64

\* Every number in storage is a u64.
StoredInRange(st) ==
    /\ \A a \in DOMAIN st.CoinStore : st.CoinStore[a] \in U64
    /\ \A v \in DOMAIN st.Vault :
         /\ st.Vault[v].total_deposits \in U64
         /\ st.Vault[v].total_shares \in U64
         /\ \A u \in DOMAIN st.Vault[v].user_shares : st.Vault[v].user_shares[u] \in U64
         /\ \A u \in DOMAIN st.Vault[v].user_available_balance :
              st.Vault[v].user_available_balance[u] \in U64
         /\ \A u \in DOMAIN st.Vault[v].user_locked_balance :
              st.Vault[v].user_locked_balance[u] \in U64
    /\ \A b \in DOMAIN st.OrderBook :
         /\ st.OrderBook[b].next_order_id \in U64
         /\ \A id \in DOMAIN st.OrderBook[b].orders :
              /\ st.OrderBook[b].orders[id].price \in U64
              /\ st.OrderBook[b].orders[id].quantity \in U64
              /\ st.OrderBook[b].orders[id].filled_quantity \in U64

\* C28: every stored number stays within 0..MAX_U64, a failed call changes
\* nothing, and a call whose exact arithmetic leaves that range fails with an
\* arithmetic error: price * quantity of a Bid in place_order,
\* total_deposits + amount in deposit and credit_deposit, and in fill_order
\* price * fill_quantity, the payee's available balance + the amount settled,
\* and quantity - filled_quantity once both settlements have gone through.
C28_CheckedArithmetic ==
    [][/\ StoredInRange(Storage')
       /\ tx'.err # OK => tx'.events = <<>> /\ UNCHANGED ledger
       /\ (/\ tx'.op = "place_order"
           /\ Admin \in DOMAIN OrderBook
           /\ tx'.args.price > 0 /\ tx'.args.quantity > 0
           /\ tx'.args.side = ORDER_SIDE_BID
           /\ tx'.args.price * tx'.args.quantity > MAX_U64) =>
                Rejected("ARITHMETIC_ERROR")
       /\ (/\ tx'.op \in {"deposit", "credit_deposit"}
           /\ Admin \in DOMAIN Vault
           /\ tx'.args.amount > 0
           /\ Vault[Admin].is_active
           /\ Vault[Admin].total_deposits + tx'.args.amount > MAX_U64) =>
                Rejected("ARITHMETIC_ERROR")
       /\ (/\ tx'.op = "fill_order"
           /\ Admin \in DOMAIN OrderBook
           /\ tx'.args.maker_order_id \in DOMAIN Book.orders
           /\ Book.orders[tx'.args.maker_order_id].status \notin TerminalStatus) =>
            LET order == Book.orders[tx'.args.maker_order_id]
                f == tx'.args.fill_quantity
                value == order.price * f
                paid == IF order.side = ORDER_SIDE_BID THEN value ELSE f
                received == IF order.side = ORDER_SIDE_BID THEN f ELSE value
                v == Book.vault_address
                first == settle_order(Storage, v, order.owner, tx'.args.taker, paid)
                second == settle_order(first, v, tx'.args.taker, order.owner, received)
            IN /\ value > MAX_U64 => Rejected("ARITHMETIC_ERROR")
               /\ (/\ value <= MAX_U64
                   /\ get_user_locked_balance(Storage, v, order.owner) >= paid
                   /\ get_user_available_balance(Storage, v, tx'.args.taker) + paid > MAX_U64) =>
                        Rejected("ARITHMETIC_ERROR")
               /\ (/\ value <= MAX_U64
                   /\ first.err = OK /\ second.err = OK
                   /\ order.quantity < order.filled_quantity + f) =>
                        Rejected("ARITHMETIC_ERROR")]_vars

\* A fill_order whose product and remaining quantity are in range has failed
\* on the sum of the taker's available balance and the amount settled.
C28_Witness ==
    /\ tx.op = "fill_order"
    /\ tx.err = "ARITHMETIC_ERROR"
    /\ tx.args.maker_order_id \in DOMAIN Book.orders
    /\ LET order == Book.orders[tx.args.maker_order_id]
           paid == IF order.side = ORDER_SIDE_BID
                   THEN order.price * tx.args.fill_quantity
                   ELSE tx.args.fill_quantity
       IN /\ order.price * tx.args.fill_quantity <= MAX_U64
          /\ order.filled_quantity + tx.args.fill_quantity <= order.quantity
          /\ get_user_locked_balance(Storage, Book.vault_address, order.owner) >= paid
          /\ get_user_available_balance(Storage, Book.vault_address, tx.args.taker) + paid > MAX_U64

\* The event of a successful operation `op(a)`, taken from the operation's
\* arguments and its effect on the ledger.
EventOf(op, a) ==
    CASE op = "transfer_with_authorization" ->
           <<PaymentExecutedEvent(a.sender, a.recipient, a.amount, a.nonce, now)>>
      [] op \in {"deposit", "credit_deposit"} ->
           <<DepositEvent(a.user, a.amount,
                          Vault'[a.vault_addr].total_shares - Vault[a.vault_addr].total_shares,
                          now)>>
      [] op = "withdraw" ->
           <<WithdrawEvent(a.user,
                           Vault[a.vault_addr].total_deposits - Vault'[a.vault_addr].total_deposits,
                           a.shares, now)>>
      [] op = "place_order" ->
           <<OrderPlacedEvent(Book.next_order_id, a.user, a.price, a.quantity, a.side, now)>>
      [] op = "cancel_order" ->
           <<OrderCancelledEvent(a.order_id, a.caller, now)>>
      [] op = "fill_order" ->
           <<OrderFilledEvent(a.maker_order_id, Book.orders[a.maker_order_id].owner,
                              a.fill_quantity,
                              Book.orders[a.maker_order_id].quantity
                                - OrderBook'[Admin].orders[a.maker_order_id].filled_quantity,
                              now)>>
      [] OTHER -> <<>>

\* C29: the step at which a transaction takes effect is the step at which its
\* events join the log: a successful transfer_with_authorization, deposit,
\* credit_deposit, withdraw, place_order, cancel_order and fill_order emits
\* exactly one event, of its kind and with that call's values (OrderFilled
\* with this call's fill_quantity and the quantity remaining after it), a
\* failed operation emits none, and no event is emitted at any other step.
C29_OneEventPerOperation ==
    [][IF tx'.op = "idle" \/ tx' = tx THEN UNCHANGED ledger
       ELSE /\ tx = Idle
            /\ tx'.events = IF tx'.err = OK THEN EventOf(tx'.op, tx'.args) ELSE <<>>
            /\ tx'.err # OK => UNCHANGED ledger]_vars

\* The second fill of an order has reported its own quantity, not the
\* order's total.
C29_Witness ==
    /\ tx.op = "fill_order"
    /\ tx.err = OK
    /\ tx.events[1].filled_quantity > 0
    /\ tx.events[1].filled_quantity < Book.orders[tx.args.maker_order_id].filled_quantity
    /\ tx.events[1].remaining_quantity = 0

\* The number a string of decimal digits denotes.
RECURSIVE DecimalValue(_)
DecimalValue(s) ==
    IF Len(s) = 0 THEN 0
    ELSE LET last == SubSeq(s, Len(s), Len(s))
             digit == CHOOSE d \in 0..9 : SubSeq("0123456789", d + 1, d + 1) = last
         IN 10 * DecimalValue(SubSeq(s, 1, Len(s) - 1)) + digit

\* s is the decimal rendering of n without leading zeros.
IsDecimalOf(s, n) ==
    /\ Len(s) >= 1
    /\ \A i \in 1..Len(s) : \E d \in 0..9 : SubSeq("0123456789", d + 1, d + 1) = SubSeq(s, i, i)
    /\ Len(s) > 1 => SubSeq(s, 1, 1) # "0"
    /\ DecimalValue(s) = n

\* `count` zero bytes in hex.
RECURSIVE ZeroBytes(_)
ZeroBytes(count) == IF count = 0 THEN "" ELSE "00" \o ZeroBytes(count - 1)

\* '0x' and the lowercase hex digits of the bytes of each address: zero
\* bytes and then a1 for u1, a2 for u2 and 0f for the facilitator.
HexOfAddress(addr) ==
    "0x" \o ZeroBytes(AddressLength - 1)
         \o CASE addr = "u1" -> "a1" [] addr = "u2" -> "a2" [] addr = "f" -> "0f"

\* The decimal rendering of a number below 10.
DecimalDigit(n) == SubSeq("0123456789", n + 1, n + 1)

\* The message of the claim for a transfer's payload.
WalletMessage(a) ==
    "APTOS\nmessage: " \o HexOfAddress(a.sender) \o ":" \o HexOfAddress(a.recipient)
      \o ":" \o DecimalDigit(a.amount) \o ":" \o DecimalDigit(a.nonce)
      \o ":" \o DecimalDigit(a.expiry) \o "\nnonce: " \o DecimalDigit(a.nonce)

\* C30: for the payload of every transfer, construct_authorization_message
\* returns 'APTOS\nmessage: ' hex(sender) ':' hex(recipient) ':' dec(amount)
\* ':' dec(nonce) ':' dec(expiry) '\nnonce: ' dec(nonce); address_to_string is
\* '0x' and the lowercase hex of the address bytes; u64_to_string is the
\* decimal rendering without leading zeros, also of numbers of two and three
\* digits; and a transfer that passes the checks before the signature's
\* fails with E_INVALID_SIGNATURE exactly when its signature is not one by
\* the presented key over that message.
C30_WalletMessageFormat ==
    [][tx'.op = "transfer_with_authorization" =>
        LET a == tx'.args
            message == construct_authorization_message(a.sender, a.recipient, a.amount, a.nonce, a.expiry)
        IN /\ message = WalletMessage(a)
           /\ \A addr \in Addr : address_to_string(addr) = HexOfAddress(addr)
           /\ \A n \in {0, a.amount, 10 * a.amount + a.nonce, 10 * a.nonce,
                        100 * a.amount + 10 * a.nonce + a.expiry, 100 * a.nonce} :
                IsDecimalOf(u64_to_string(n), n)
           /\ (/\ now <= a.expiry
               /\ a.sender \in DOMAIN NonceStore
               /\ ~is_nonce_used(Storage, a.sender, a.nonce)
               /\ a.public_key # ShortKey
               /\ a.signature.size_ok) =>
                (tx'.err = "E_INVALID_SIGNATURE" <=>
                    ~(a.signature.key = a.public_key /\ a.signature.msg = WalletMessage(a)))]_vars

\* A transfer signed over the wallet's text for u1, u2, amount 1, nonce 2
\* and expiry 1 has gone through.
C30_Witness ==
    /\ tx.op = "transfer_with_authorization"
    /\ tx.err = OK
    /\ tx.args.signature.msg =
         "APTOS\nmessage: " \o HexOfAddress("u1") \o ":" \o HexOfAddress("u2")
           \o ":1:2:1\nnonce: 2"

\* The balance an order that can still be filled or cancelled has reserved.
Reservation(order) ==
    LockAmount(order.price, order.quantity - order.filled_quantity, order.side)

OpenOrdersOf(user) ==
    {id \in DOMAIN Book.orders :
        /\ Book.orders[id].owner = user
        /\ Book.orders[id].status \in {ORDER_STATUS_OPEN, ORDER_STATUS_PARTIALLY_FILLED}}

\* C33: every user's locked_balance is at least the sum of the reservations
\* of the user's Open and PartiallyFilled orders, also after the user was the
\* taker of fills, and the owner's cancel_order on such an order does not
\* fail with E_INSUFFICIENT_LOCKED_BALANCE.
C33_LockedCoversOpenOrders ==
    (Admin \in DOMAIN OrderBook /\ Book.vault_address \in DOMAIN Vault) =>
        \A user \in Users :
            /\ get_user_locked_balance(Storage, Book.vault_address, user)
                 >= SumOf([id \in OpenOrdersOf(user) |-> Reservation(Book.orders[id])],
                          OpenOrdersOf(user))
            /\ \A id \in OpenOrdersOf(user) :
                 cancel_order(Storage, now, user, Admin, id).err
                     # "E_INSUFFICIENT_LOCKED_BALANCE"

\* C34: a nonce of sender S is consumed and a PaymentExecutedEvent naming S is
\* emitted only by a transfer_with_authorization whose signature was made
\* with S's own key; a call whose signature verifies only under a presented
\* public key that is not S's, and that passes the expiry and nonce checks,
\* fails with E_INVALID_SIGNATURE and leaves S's nonces as they were.
C34_OnlyOwnKeyConsumesNonce ==
    [][tx'.op = "transfer_with_authorization" =>
        LET a == tx'.args IN
        /\ (tx'.err = OK \/ NonceStore' # NonceStore) =>
              (a.signature.key = a.sender /\ a.public_key = a.sender)
        /\ (/\ ValidAuthorization(a)
            /\ a.public_key # a.sender
            /\ now <= a.expiry
            /\ a.sender \in DOMAIN NonceStore
            /\ ~is_nonce_used(Storage, a.sender, a.nonce)) =>
              (tx'.err = "E_INVALID_SIGNATURE" /\ NonceStore' = NonceStore)]_vars

\* C36: in every vault the users' available_balance + locked_balance, summed
\* over all users, does not exceed total_deposits.
C36_BalancesWithinDeposits ==
    \A v \in DOMAIN Vault :
        SumOf([w \in Addr |-> get_user_total_balance(Storage, v, w)], Addr)
            <= Vault[v].total_deposits

C38_StatusAgreesWithFill ==
    \A b \in DOMAIN OrderBook : \A id \in DOMAIN OrderBook[b].orders :
        LET order == OrderBook[b].orders[id] IN
        /\ order.status = ORDER_STATUS_OPEN => order.filled_quantity = 0
        /\ order.status = ORDER_STATUS_PARTIALLY_FILLED =>
             (0 < order.filled_quantity /\ order.filled_quantity < order.quantity)
        /\ order.status = ORDER_STATUS_FILLED <=> order.filled_quantity = order.quantity

\* The step is a deposit or credit_deposit of amount > 0 into an active
\* vault, all of whose results fit in a u64: the totals, the user's shares
\* and available balance and, for deposit, the coin balances moved.
DepositThatFits ==
    /\ tx'.op \in {"deposit", "credit_deposit"}
    /\ tx'.args.vault_addr \in DOMAIN Vault
    /\ tx'.args.amount > 0
    /\ LET v == tx'.args.vault_addr
           user == tx'.args.user
           amount == tx'.args.amount
       IN /\ Vault[v].is_active
          /\ Vault[v].total_deposits + amount <= MAX_U64
          /\ Vault[v].total_shares + amount <= MAX_U64
          /\ get_user_shares(Storage, v, user) + amount <= MAX_U64
          /\ get_user_available_balance(Storage, v, user) + amount <= MAX_U64
          /\ tx'.op = "deposit" =>
               /\ CoinStore[user] >= amount
               /\ user # v => CoinStore[v] + amount <= MAX_U64

\* The step is a withdraw of 0 < shares <= the user's shares.
WithdrawOfHeldShares ==
    /\ tx'.op = "withdraw"
    /\ tx'.args.vault_addr \in DOMAIN Vault
    /\ tx'.args.shares > 0
    /\ tx'.args.shares <= get_user_shares(Storage, tx'.args.vault_addr, tx'.args.user)

C40_InitializeIdempotent ==
    [][/\ (tx'.op = "initialize_vault" /\ tx'.args.admin \in DOMAIN Vault) =>
            (tx'.err = OK /\ tx'.events = <<>> /\ UNCHANGED ledger)
       /\ (tx'.op = "initialize_order_book" /\ tx'.args.admin \in DOMAIN OrderBook) =>
            (tx'.err = OK /\ tx'.events = <<>> /\ UNCHANGED ledger)
       /\ tx' # Idle => \A admin \in Addr, again \in Addr :
            LET vault == initialize_vault(Storage', admin, admin)
                book == initialize_order_book(Storage', admin, admin)
            IN /\ vault.err = OK
               /\ book.err = OK
               /\ initialize_vault(vault, admin, again) = vault
               /\ initialize_order_book(book, admin, again) = book
               /\ admin \in DOMAIN Vault' => vault = Storage'
               /\ admin \in DOMAIN OrderBook' => book = Storage']_vars

\* initialize_vault and initialize_order_book have been called again on a
\* vault with balances and a book with orders.
C40_Witness ==
    /\ tx.op \in {"initialize_vault", "initialize_order_book"}
    /\ tx.err = OK
    /\ Admin \in DOMAIN OrderBook
    /\ Book.next_order_id > 2
    /\ \E id \in DOMAIN Book.orders : Book.orders[id].status = ORDER_STATUS_PARTIALLY_FILLED
    /\ Vault[Admin].total_shares > 0

\* C31: validateNonceAndExpiry returns valid, with no reason, only for an
\* expiry that is not in the past and a nonce that is neither in the
\* relayer's record nor reported used by the chain; it rejects a past expiry
\* with 'Authorization expired' and an unexpired authorization whose nonce is
\* used with 'Nonce already used (replay attack)'; and POST
\* /submit-authorization answers 400 with that reason when the validation
\* fails and goes on to the submission only when it succeeds.
C31_ValidationDecides ==
    [][/\ \A nonce \in 1..MaxNonce, expiry \in 0..MaxTime, on_chain \in BOOLEAN :
            LET validation == validateNonceAndExpiry(used_nonces, now, Trader, nonce,
                                                     expiry, on_chain)
                used == <<Trader, nonce>> \in used_nonces \/ on_chain
            IN /\ validation.valid <=> (expiry >= now /\ ~used)
               /\ validation.valid => validation.reason = NoReason
               /\ expiry < now => validation.reason = AuthorizationExpired
               /\ (expiry >= now /\ used) => validation.reason = NonceAlreadyUsed
       /\ \A i \in DOMAIN requests' :
            (requests'[i].route = "submit-authorization" /\ i \notin DOMAIN requests) =>
                LET request == requests'[i]
                    recorded == <<request.user, request.nonce>> \in used_nonces
                IN /\ request.expiry < now =>
                        request = Respond(request, 400, AuthorizationExpired)
                   /\ (request.expiry >= now /\ recorded) =>
                        request = Respond(request, 400, NonceAlreadyUsed)
                   /\ (request.expiry >= now /\ ~recorded) => request.pc = "lookup"
       /\ \A i \in DOMAIN requests :
            (/\ requests[i].route = "submit-authorization"
             /\ requests[i].pc = "answered"
             /\ requests'[i] # requests[i]) =>
                IF requests[i].on_chain
                THEN requests'[i] = Respond(requests[i], 400, NonceAlreadyUsed)
                ELSE requests'[i] = [requests[i] EXCEPT !.pc = "submit"]]_vars

\* The relayer has refused one authorization as expired and another, not
\* expired, because the chain reported its nonce used.
C31_Witness ==
    \E i \in DOMAIN requests, j \in DOMAIN requests :
        /\ requests[i] = Respond(requests[i], 400, AuthorizationExpired)
        /\ requests[i].route = "submit-authorization"
        /\ requests[j] = Respond(requests[j], 400, NonceAlreadyUsed)
        /\ requests[j].route = "submit-authorization"
        /\ requests[j].on_chain
        /\ requests[j].expiry >= now

\* C32: the relayer's record of used nonces only grows; isNonceUsed for a
\* recorded pair returns true without consulting the chain, whatever the
\* chain would answer; a pair is recorded once markNonceUsed ran for it (a
\* POST /place that goes on to the submission has run it) and once a lookup
\* reported it used; and a POST /place for a recorded pair is answered
\* without a lookup.
C32_RecordIsMonotonic ==
    [][/\ used_nonces \subseteq used_nonces'
       /\ \A nonce \in 1..MaxNonce, on_chain \in BOOLEAN :
            <<Trader, nonce>> \in used_nonces' =>
                isNonceUsed(used_nonces', Trader, nonce, on_chain)
                    = [result |-> TRUE, consulted |-> FALSE, cache |-> used_nonces']
       /\ \A i \in DOMAIN requests' :
            (/\ requests'[i].route = "place"
             /\ i \notin DOMAIN requests
             /\ <<requests'[i].user, requests'[i].nonce>> \in used_nonces) =>
                requests'[i].pc = "done"
       /\ \A i \in DOMAIN requests :
            (/\ requests[i].route = "place"
             /\ requests[i].pc = "answered"
             /\ requests'[i] # requests[i]) =>
                /\ <<requests[i].user, requests[i].nonce>> \in used_nonces'
                /\ requests[i].on_chain => requests'[i].status = 400]_vars

\* A POST /place was refused for a nonce an earlier request had marked used,
\* without a lookup, while the chain does not hold the nonce.
C32_Witness ==
    \E i \in DOMAIN requests, j \in DOMAIN requests :
        /\ i < j
        /\ requests[i].route = "place"
        /\ requests[i].status = 200
        /\ requests[j] = Respond(Request("place", requests[i].user, requests[i].nonce,
                                         requests[j].expiry),
                                 400, "Invalid or already used nonce")
        /\ ~is_nonce_used(Storage, requests[i].user, requests[i].nonce)

\* The request's place_order_for_user transaction was submitted and placed
\* the order.
Placed(request) ==
    request.route = "place" /\ request.pc = "done" /\ request.status = 200

\* C35: of the POST /place requests carrying the same user and nonce at most
\* one reaches the on-chain placement, however their handlers interleave.
C35_OnePlacementPerNonce ==
    \A i \in DOMAIN requests, j \in DOMAIN requests :
        (/\ i # j
         /\ requests[i].user = requests[j].user
         /\ requests[i].nonce = requests[j].nonce
         /\ Placed(requests[i]))
            => ~Placed(requests[j])

====
